---- MODULE Spec2Model ----
(***************************************************************************)
(* Payment-verification subsystem of wallineex-backend.                    *)
(*                                                                         *)
(* The repository ships two alternative servers:                           *)
(*   "server"  the monolithic src/server.js (paymentCache, TTL 300 s,      *)
(*             verificationRateLimit, handleWebhook, clear-cache, sweep);  *)
(*   "routes"  the modular server that mounts src/routes/payment.js        *)
(*             (verificationCache, TTL 30 s, /payment-webhook).            *)
(* A process runs one of them; Init picks which.  Time is in milliseconds  *)
(* (Date.now()).  Strings that the code inspects character by character    *)
(* (order ids, client addresses, map keys) are sequences of one-character  *)
(* strings.                                                                *)
(***************************************************************************)
EXTENDS Integers, Sequences, FiniteSets, Bags, TLC

VARIABLES
    impl,                   \* which server this process runs
    now,                    \* Date.now()
    paymentCache,           \* server.js: Map cacheKey -> {data, timestamp}
    verificationRateLimit,  \* server.js: Map key -> {lastCall, count}
    verificationCache,      \* routes/payment.js: Map cacheKey -> {data, timestamp}
    inflight,               \* handlers suspended at an awaited remote call
    remoteOrder,            \* the processor's order status, per order id
    wire,                   \* webhook deliveries the processor has signed
    resp,                   \* the response sent by the last step, if any
    ncalls,                 \* verification requests received so far
    throttleLog,            \* per throttle key: the calls since the map was cleared
    lastFetched,            \* per order: last remote-fetched result not invalidated since
    hooked                  \* per order: PAYMENT_SUCCESS webhook handled, and when

vars == <<impl, now, paymentCache, verificationRateLimit, verificationCache,
          inflight, remoteOrder, wire, resp, ncalls, throttleLog,
          lastFetched, hooked>>

-----------------------------------------------------------------------------
(* Bounds *)

MaxCalls == 3          \* verification requests per run (cache/webhook runs)
MaxBurst == 7          \* verification requests per run (throttle runs)
MaxInflight == 2       \* handlers suspended at the same time
MaxWire == 1           \* webhook deliveries signed by the processor
MaxVolley == 11        \* verification requests per run (runs across two windows)

\* the instants at which something happens: around the two TTLs and the
\* webhook freshness window (cache runs), around the cooldown (throttle runs)
InstantsServer == {0, 200000, 500000}
InstantsRoutes == {0, 20000, 50000, 400000}
BurstInstants == {0, 1999, 2000}

-----------------------------------------------------------------------------
(* Strings *)

Digits == {"0", "1", "2", "3", "4", "5", "6", "7", "8", "9"}

OrderX == <<"W", "X", "1", "2", "3", "4", "5", "6", "7", "8", "9", "0", "1", "2", "3">>
OrderY == <<"W", "X", "1", "7", "4", "6", "6", "0", "4", "1", "5", "7", "4", "9", "3">>
BadId == <<"A", "B", "C">>
NoOrderId == <<>>

Ip1 == <<":", ":", "1">>
Ip2 == <<":", ":", "2">>

Orders == {OrderX, OrderY}
OrderIdInputs == {OrderX, OrderY, BadId, NoOrderId}
IPs == {Ip1, Ip2}

-----------------------------------------------------------------------------
(* Program constants *)

CACHE_DURATION_SERVER == 5 * 60 * 1000   \* server.js: paymentCache TTL
CACHE_DURATION_ROUTES == 30000           \* routes/payment.js: verificationCache TTL
RATE_COOLDOWN == 2000                    \* checkRateLimit: "2 second cooldown"
RATE_MAX_CALLS == 5                      \* checkRateLimit: "Max 5 calls per 2 seconds"
RATE_STALE == 10 * 60 * 1000             \* cleanupCache: rate entries older than 10 minutes
CACHE_MAX_SIZE == 100                    \* routes/payment.js: cleanup when size > 100

-----------------------------------------------------------------------------
(* JavaScript Map *)

EmptyMap == <<>>

MapHas(m, k) == k \in DOMAIN m

MapSet(m, k, v) == [x \in (DOMAIN m) \cup {k} |-> IF x = k THEN v ELSE m[x]]

MapDelete(m, k) == [x \in (DOMAIN m) \ {k} |-> m[x]]

-----------------------------------------------------------------------------
(* Responses.  resp holds what the step just taken sent to its client;    *)
(* a step that sends nothing leaves NoResp.                                *)

NoEntry == [order_status |-> "-", earlier |-> FALSE]

\* the status of the entry that the cache holds for order o (whether or not it
\* is fresh), and whether it was written at an earlier clock reading
FoundEntry(im, o) ==
    LET cache == IF im = "server" THEN paymentCache ELSE verificationCache
        key == IF im = "server" THEN <<"payment-">> \o o ELSE <<"verify_">> \o o
    IN  IF MapHas(cache, key)
        THEN [order_status |-> cache[key].data.order_status,
              earlier |-> cache[key].timestamp < now]
        ELSE NoEntry

NoResp == [kind |-> "none", impl |-> "-", ip |-> <<>>, orderId |-> <<>>,
           status |-> 0, data |-> <<>>, fromCache |-> FALSE, entryTs |-> -1,
           cache_age |-> -1, remote |-> 0, overtaken |-> FALSE,
           found |-> NoEntry]

\* fromCache, entryTs, remote, overtaken, found describe how the response came
\* about: served from a cache entry written at entryTs, after `remote` queries
\* to the processor, by a handler that was suspended while a PAYMENT_SUCCESS
\* webhook for its order was handled, with the cache holding the entry `found`
\* for the order when the handler took the step that answers
VerifyResp(im, ip, o, st, d, hit, ts, age, rc, ov) ==
    [kind |-> "verify", impl |-> im, ip |-> ip, orderId |-> o,
     status |-> st, data |-> d, fromCache |-> hit, entryTs |-> ts,
     cache_age |-> age, remote |-> rc, overtaken |-> ov,
     found |-> FoundEntry(im, o)]

\* a webhook response: orderId is the order named in the body, entryTs the
\* x-webhook-timestamp header (seconds), data the delivery itself
WebhookResp(im, o, st, m) ==
    [kind |-> "webhook", impl |-> im, ip |-> <<>>, orderId |-> o,
     status |-> st, data |-> m, fromCache |-> FALSE, entryTs |-> m.timestamp,
     cache_age |-> -1, remote |-> 0, overtaken |-> FALSE, found |-> NoEntry]

AdminResp(kind, o, st) ==
    [kind |-> kind, impl |-> "server", ip |-> <<>>, orderId |-> o,
     status |-> st, data |-> <<>>, fromCache |-> FALSE, entryTs |-> -1,
     cache_age |-> -1, remote |-> 0, overtaken |-> FALSE, found |-> NoEntry]

\* the handlers suspended at an awaited call form a bag (the event loop keeps
\* no order among them)
Suspended == BagToSet(inflight)

Suspend(r) == inflight (+) SetToBag({r})

Finish(r) == inflight (-) SetToBag({r})

Continue(r, s) == (inflight (-) SetToBag({r})) (+) SetToBag({s})

-----------------------------------------------------------------------------
(* server.js: checkRateLimit(ip, orderId) at time t on map m *)

RateKey(ip, orderId) == ip \o <<"-">> \o orderId

InCooldown(m, key, t) == MapHas(m, key) /\ t - m[key].lastCall < RATE_COOLDOWN

\* faults of the throttle: ">=" for ">", and the count compared before it is incremented
checkRateLimitOffByOne(m, ip, orderId, t) ==
    LET key == ip \o <<"-">> \o orderId IN
    IF InCooldown(m, key, t)
    THEN ~ (m[key].count + 1 >= RATE_MAX_CALLS)
    ELSE TRUE

checkRateLimitNoCount(m, ip, orderId, t) ==
    LET key == ip \o <<"-">> \o orderId IN
    IF InCooldown(m, key, t)
    THEN ~ (m[key].count > RATE_MAX_CALLS)
    ELSE TRUE

\* a fault of the throttle: the window admits twice the burst
checkRateLimitDouble(m, ip, orderId, t) ==
    LET key == ip \o <<"-">> \o orderId IN
    IF InCooldown(m, key, t)
    THEN ~ (m[key].count + 1 > 2 * RATE_MAX_CALLS)
    ELSE TRUE

\* the value returned
checkRateLimit(m, ip, orderId, t) ==
    LET key == RateKey(ip, orderId) IN
    IF InCooldown(m, key, t)
    THEN ~ (m[key].count + 1 > RATE_MAX_CALLS)
    ELSE TRUE

\* a fault of the throttle: a rejected call restarts the window
checkRateLimitStoreSliding(m, ip, orderId, t) ==
    LET key == RateKey(ip, orderId) IN
    IF InCooldown(m, key, t)
    THEN IF m[key].count + 1 > RATE_MAX_CALLS
         THEN [m EXCEPT ![key] = [lastCall |-> t, count |-> @.count + 1]]
         ELSE [m EXCEPT ![key].count = @ + 1]
    ELSE MapSet(m, key, [lastCall |-> t, count |-> 1])

\* the map it leaves behind
checkRateLimitStore(m, ip, orderId, t) ==
    LET key == RateKey(ip, orderId) IN
    IF InCooldown(m, key, t)
    THEN [m EXCEPT ![key].count = @ + 1]
    ELSE MapSet(m, key, [lastCall |-> t, count |-> 1])

LogCall(log, key, t, ok) ==
    MapSet(log, key, (IF MapHas(log, key) THEN log[key] ELSE <<>>)
                        \o <<[t |-> t, ok |-> ok]>>)

-----------------------------------------------------------------------------
(* The payment processor (external): GET /orders/{orderId} *)

RemoteStatus(o) == IF o \in DOMAIN remoteOrder THEN remoteOrder[o] ELSE "NONE"

\* the answers the processor can give for order o right now:
\*   "ok"         HTTP 200 with the order;
\*   "404"        HTTP 404 (no such order);
\*   "fail"       timeout, network error or HTTP 5xx;
\*   "nodata"     HTTP 200 whose body is null (response.data is null);
\*   "malformed"  HTTP 200 whose body is not an order (response.data is there,
\*                its order_status and order_id are undefined)
OrderAnswers(o) ==
    {[kind |-> "fail", order_status |-> "-", order_id |-> o],
     [kind |-> "nodata", order_status |-> "-", order_id |-> o],
     [kind |-> "malformed", order_status |-> "undefined", order_id |-> NoOrderId]}
    \cup (IF RemoteStatus(o) = "NONE"
          THEN {[kind |-> "404", order_status |-> "-", order_id |-> o]}
          ELSE {[kind |-> "ok", order_status |-> RemoteStatus(o), order_id |-> o]})

AnswerKinds == {"ok", "404", "fail", "nodata", "malformed"}

\* the awaited get resolved (HTTP 2xx) and response.data is an object
HasData(ans) == ans.kind \in {"ok", "malformed"}

\* GET /orders/{orderId}/payments
PaymentsAnswers == {[kind |-> "ok"], [kind |-> "fail"]}

\* a handler suspended at its order query; expired records that the cache
\* held an entry for the order, too old to be served, when the query was issued
Request(im, ip, o) ==
    [pc |-> "order-sent", impl |-> im, ip |-> ip, orderId |-> o,
     answer |-> <<>>, details |-> "null", remote |-> 1, overtaken |-> FALSE,
     expired |-> IF im = "server"
                 THEN MapHas(paymentCache, <<"payment-">> \o o)
                 ELSE MapHas(verificationCache, <<"verify_">> \o o)]

ErrorBody(msg) == [success |-> FALSE, error |-> msg]

\* routes/payment.js: error bodies of the catch carry order_id: req.body.orderId
ErrorBodyRoutes(msg, orderId) == [success |-> FALSE, error |-> msg, order_id |-> orderId]

-----------------------------------------------------------------------------
(* server.js: POST /api/verify-payment *)

CacheKeyServer(orderId) == <<"payment-">> \o orderId

\* faults of the freshness test: "<=" for "<", and half the TTL
CacheFreshInclusive(cache, key, t, ttl) ==
    MapHas(cache, key) /\ (t - cache[key].timestamp) <= ttl

CacheFreshShort(cache, key, t, ttl) ==
    MapHas(cache, key) /\ (t - cache[key].timestamp) < ttl \div 2

\* cachedResult && (Date.now() - cachedResult.timestamp) < CACHE_DURATION
CacheFresh(cache, key, t, ttl) ==
    MapHas(cache, key) /\ (t - cache[key].timestamp) < ttl

ServerResult(ans) ==
    [success |-> TRUE,
     order_status |-> ans.order_status,
     payment_status |-> IF ans.order_status = "PAID" THEN "SUCCESS" ELSE "PENDING",
     order_id |-> ans.order_id,
     cached |-> FALSE]

\* if (!orderId) return res.status(400)
MissingOrderId(im, ip, orderId) ==
    /\ resp' = VerifyResp(im, ip, orderId, 400, ErrorBody("Order ID is required"),
                          FALSE, -1, -1, 0, FALSE)
    /\ UNCHANGED <<paymentCache, verificationCache, verificationRateLimit, inflight,
                   throttleLog>>

\* a missing "return" after the 429: the handler goes on to query the processor
RejectTooManyNoReturn(ip, orderId) ==
    /\ resp' = VerifyResp("server", ip, orderId, 429,
                          [success |-> FALSE, error |-> "Too many verification requests",
                           cached |-> FALSE], FALSE, -1, -1, 0, FALSE)
    /\ BagCardinality(inflight) < MaxInflight
    /\ inflight' = Suspend(Request("server", ip, orderId))
    /\ UNCHANGED <<paymentCache, verificationCache>>

\* if (!checkRateLimit(clientIP, orderId)) return res.status(429)
RejectTooMany(ip, orderId) ==
    /\ resp' = VerifyResp("server", ip, orderId, 429,
                          [success |-> FALSE, error |-> "Too many verification requests",
                           cached |-> FALSE], FALSE, -1, -1, 0, FALSE)
    /\ UNCHANGED <<paymentCache, verificationCache, inflight>>

\* return res.json({...cachedResult.data, cached: true, cache_age})
ServeCachedServer(ip, orderId) ==
    LET cachedResult == paymentCache[CacheKeyServer(orderId)] IN
    /\ resp' = VerifyResp("server", ip, orderId, 200,
                          [cachedResult.data EXCEPT !.cached = TRUE], TRUE,
                          cachedResult.timestamp,
                          (now - cachedResult.timestamp) \div 1000, 0, FALSE)
    /\ UNCHANGED <<paymentCache, verificationCache, inflight>>

\* a fault of the handler: a call whose order already has a query in flight
\* waits for that query instead of issuing its own
IssueOrderQueryOnce(im, ip, orderId, maxInflight) ==
    /\ BagCardinality(inflight) < maxInflight
    /\ inflight' = IF \E r \in Suspended : r.orderId = orderId
                   THEN inflight
                   ELSE Suspend(Request(im, ip, orderId))
    /\ resp' = NoResp
    /\ UNCHANGED <<paymentCache, verificationCache>>

\* await axios.get(`${CASHFREE_BASE_URL}/orders/${orderId}`): the handler is
\* suspended (at most maxInflight handlers are)
IssueOrderQuery(im, ip, orderId, maxInflight) ==
    /\ BagCardinality(inflight) < maxInflight
    /\ inflight' = Suspend(Request(im, ip, orderId))
    /\ resp' = NoResp
    /\ UNCHANGED <<paymentCache, verificationCache>>

\* a fault of the handler: the cache is read before the throttle is consulted
VerifyPaymentServerCacheFirst(ip, orderId, maxCalls, maxInflight, logging) ==
    /\ impl = "server"
    /\ ncalls < maxCalls
    /\ ncalls' = ncalls + 1
    /\ UNCHANGED <<impl, now, remoteOrder, wire, lastFetched, hooked>>
    /\ IF orderId = NoOrderId
       THEN MissingOrderId("server", ip, orderId)
       ELSE IF CacheFresh(paymentCache, CacheKeyServer(orderId), now,
                          CACHE_DURATION_SERVER)
       THEN /\ ServeCachedServer(ip, orderId)
            /\ UNCHANGED <<verificationRateLimit, throttleLog>>
       ELSE LET ok == checkRateLimit(verificationRateLimit, ip, orderId, now) IN
            /\ verificationRateLimit' =
                   checkRateLimitStore(verificationRateLimit, ip, orderId, now)
            /\ throttleLog' = IF logging
                              THEN LogCall(throttleLog, RateKey(ip, orderId), now, ok)
                              ELSE throttleLog
            /\ IF ~ ok
               THEN RejectTooMany(ip, orderId)
               ELSE IssueOrderQuery("server", ip, orderId, maxInflight)

\* the synchronous part of the handler, up to the awaited axios.get
VerifyPaymentServer(ip, orderId, maxCalls, maxInflight, logging) ==
    /\ impl = "server"
    /\ ncalls < maxCalls
    /\ ncalls' = ncalls + 1
    /\ UNCHANGED <<impl, now, remoteOrder, wire, lastFetched, hooked>>
    /\ IF orderId = NoOrderId
       THEN MissingOrderId("server", ip, orderId)
       ELSE LET ok == checkRateLimit(verificationRateLimit, ip, orderId, now) IN
            /\ verificationRateLimit' =
                   checkRateLimitStore(verificationRateLimit, ip, orderId, now)
            /\ throttleLog' = IF logging
                              THEN LogCall(throttleLog, RateKey(ip, orderId), now, ok)
                              ELSE throttleLog
            /\ IF ~ ok
               THEN RejectTooMany(ip, orderId)
               ELSE IF CacheFresh(paymentCache, CacheKeyServer(orderId), now,
                                  CACHE_DURATION_SERVER)
               THEN ServeCachedServer(ip, orderId)
               ELSE IssueOrderQuery("server", ip, orderId, maxInflight)

\* a fault of the handler: the result is cached whatever its status
ResumeVerifyServerCacheAll(r) ==
    /\ r.impl = "server"
    /\ r.pc = "order-answered"
    /\ LET ans == r.answer
           key == CacheKeyServer(r.orderId)
           result == ServerResult(ans)
       IN
       /\ inflight' = Finish(r)
       /\ UNCHANGED <<impl, now, verificationRateLimit, verificationCache, remoteOrder,
                      wire, ncalls, throttleLog, hooked>>
       /\ IF HasData(ans)
          THEN /\ paymentCache' =
                     MapSet(paymentCache, key, [data |-> result, timestamp |-> now])
               /\ resp' = VerifyResp("server", r.ip, r.orderId, 200, result, FALSE, -1, -1,
                                     r.remote, r.overtaken)
               /\ lastFetched' = MapSet(lastFetched, r.orderId,
                                        [data |-> result, at |-> now])
          ELSE /\ resp' = VerifyResp("server", r.ip, r.orderId, 500,
                                     ErrorBody("Failed to verify payment"), FALSE, -1, -1,
                                     r.remote, r.overtaken)
               /\ UNCHANGED <<paymentCache, lastFetched>>

\* the continuation after the awaited axios.get
ResumeVerifyServer(r) ==
    /\ r.impl = "server"
    /\ r.pc = "order-answered"
    /\ LET ans == r.answer
           key == CacheKeyServer(r.orderId)
           result == ServerResult(ans)
       IN
       /\ inflight' = Finish(r)
       /\ UNCHANGED <<impl, now, verificationRateLimit, verificationCache, remoteOrder,
                      wire, ncalls, throttleLog, hooked>>
       /\ IF HasData(ans)
          THEN /\ paymentCache' =
                     IF ans.order_status = "PAID"
                     THEN MapSet(paymentCache, key, [data |-> result, timestamp |-> now])
                     ELSE paymentCache
               /\ resp' = VerifyResp("server", r.ip, r.orderId, 200, result, FALSE, -1, -1,
                                     r.remote, r.overtaken)
               /\ lastFetched' = MapSet(lastFetched, r.orderId,
                                        [data |-> result, at |-> now])
          ELSE /\ resp' = VerifyResp("server", r.ip, r.orderId, 500,
                                     ErrorBody("Failed to verify payment"), FALSE, -1, -1,
                                     r.remote, r.overtaken)
               /\ UNCHANGED <<paymentCache, lastFetched>>

-----------------------------------------------------------------------------
(* Webhook deliveries.  A raw body is a sequence of tokens                 *)
(*   "{" type order-id-characters... "}"                                   *)
(* (no order id characters: the event has no data).  The keyed digest is   *)
(* an injective function of (secret, message).                             *)

SECRET == "CASHFREE_SECRET_KEY"

Hmac(secret, message) == <<"hmac-sha256-base64", secret, message>>

Body(type, orderId) == <<"{", type>> \o orderId \o <<"}">>

\* a fault of the parser: a body that lacks its closing brace is accepted
ParseJSONLenient(raw) ==
    IF Len(raw) >= 3 /\ raw[1] = "{"
    THEN [ok |-> TRUE, type |-> raw[2], hasData |-> Len(raw) > 3,
          order_id |-> SubSeq(raw, 3, Len(raw) - 1)]
    ELSE [ok |-> FALSE, type |-> "-", hasData |-> FALSE, order_id |-> <<>>]

\* JSON.parse(rawBody); ok = FALSE stands for the SyntaxError
ParseJSON(raw) ==
    IF Len(raw) >= 3 /\ raw[1] = "{" /\ raw[Len(raw)] = "}"
    THEN [ok |-> TRUE, type |-> raw[2], hasData |-> Len(raw) > 3,
          order_id |-> SubSeq(raw, 3, Len(raw) - 1)]
    ELSE [ok |-> FALSE, type |-> "-", hasData |-> FALSE, order_id |-> <<>>]

\* a header that the request does not carry reads as undefined
NoTimestamp == -1

NoSignature == <<>>

\* the header as the string that "+" concatenates: "undefined" when missing
HeaderString(timestamp) ==
    IF timestamp = NoTimestamp THEN "undefined" ELSE ToString(timestamp)

\* config/cashfree.js: CashfreeConfig.generateSignature(rawBody, timestamp)
generateSignature(rawBody, timestamp) ==
    Hmac(SECRET, <<HeaderString(timestamp)>> \o rawBody)

\* a fault of the verifier: any signature header that is present passes
verifyWebhookSignaturePresent(rawBody, timestamp, receivedSignature) ==
    receivedSignature # NoSignature

\* config/cashfree.js: CashfreeConfig.verifyWebhookSignature
verifyWebhookSignature(rawBody, timestamp, receivedSignature) ==
    generateSignature(rawBody, timestamp) = receivedSignature

\* server.js handleWebhook: expectedSignature
expectedSignature(timestamp, rawBody) ==
    Hmac(SECRET, <<HeaderString(timestamp)>> \o rawBody)

\* server.js: generateSignature(postData, timestamp), "signature for Cashfree"
generateSignatureServer(postData, timestamp) ==
    Hmac(SECRET, postData \o <<HeaderString(timestamp)>>)

\* a delivery as the processor signs it at time t (timestamp header in seconds)
Signed(rawBody, t) ==
    [timestamp |-> t \div 1000, rawBody |-> rawBody,
     signature |-> Hmac(SECRET, <<ToString(t \div 1000)>> \o rawBody)]

\* what can arrive at the webhook endpoint: a delivery of the processor, now
\* or replayed later; the same with a signature made without the secret; the
\* same with the timestamp header rewritten to the current time; the same
\* without its timestamp header, or without its signature header
Arrivals ==
    wire
    \cup {[m EXCEPT !.signature = Hmac("guess", <<ToString(m.timestamp)>> \o m.rawBody)]
            : m \in wire}
    \cup {[m EXCEPT !.timestamp = now \div 1000] : m \in wire}
    \cup {[m EXCEPT !.timestamp = NoTimestamp] : m \in wire}
    \cup {[m EXCEPT !.signature = NoSignature] : m \in wire}

\* handlers for order o that are suspended at a remote call are marked
Overtake(o) ==
    LET mark(r) == IF r.orderId = o THEN [r EXCEPT !.overtaken = TRUE] ELSE r
        unmark(r) == [r EXCEPT !.overtaken = FALSE]
    IN [x \in {mark(r) : r \in Suspended} |->
           CopiesIn(x, inflight)
           + (IF x.orderId = o THEN CopiesIn(unmark(x), inflight) ELSE 0)]

-----------------------------------------------------------------------------
(* routes/payment.js: POST /verify-payment *)

CacheKeyRoutes(orderId) == <<"verify_">> \o orderId

PaymentStatus(orderStatus) ==
    IF orderStatus = "PAID" THEN "SUCCESS"
    ELSE IF orderStatus = "ACTIVE" THEN "PENDING" ELSE "FAILED"

RoutesResult(orderId, orderData, paymentDetails, t) ==
    [success |-> TRUE,
     order_id |-> orderId,
     order_status |-> orderData.order_status,
     payment_status |-> PaymentStatus(orderData.order_status),
     payment_details |-> paymentDetails,
     verified_at |-> t]

\* "Clean up old cache entries (simple cleanup)"
cleanupVerificationCache(cache, t) ==
    IF Cardinality(DOMAIN cache) > CACHE_MAX_SIZE
    THEN [k \in {x \in DOMAIN cache : ~ ((t - cache[x].timestamp) > CACHE_DURATION_ROUTES)}
             |-> cache[k]]
    ELSE cache

\* return res.json(cachedResult.data)
ServeCachedRoutes(orderId) ==
    LET cachedResult == verificationCache[CacheKeyRoutes(orderId)] IN
    /\ resp' = VerifyResp("routes", <<>>, orderId, 200, cachedResult.data, TRUE,
                          cachedResult.timestamp, -1, 0, FALSE)
    /\ UNCHANGED <<paymentCache, verificationCache, inflight>>

\* the synchronous part of the handler, up to the first awaited get
VerifyPaymentRoutes(orderId, maxCalls, maxInflight) ==
    /\ impl = "routes"
    /\ ncalls < maxCalls
    /\ ncalls' = ncalls + 1
    /\ UNCHANGED <<impl, now, remoteOrder, wire, lastFetched, hooked>>
    /\ IF orderId = NoOrderId
       THEN MissingOrderId("routes", <<>>, orderId)
       ELSE /\ UNCHANGED <<verificationRateLimit, throttleLog>>
            /\ IF CacheFresh(verificationCache, CacheKeyRoutes(orderId), now,
                             CACHE_DURATION_ROUTES)
               THEN ServeCachedRoutes(orderId)
               ELSE IssueOrderQuery("routes", <<>>, orderId, maxInflight)

\* a fault of the cache write: an entry that is already there is kept
FinishVerifyRoutesKeepOld(r, paymentDetails) ==
    LET key == CacheKeyRoutes(r.orderId)
        verificationResult == RoutesResult(r.orderId, r.answer, paymentDetails, now)
    IN
    /\ verificationCache' =
           IF MapHas(verificationCache, key)
           THEN verificationCache
           ELSE MapSet(verificationCache, key,
                       [data |-> verificationResult, timestamp |-> now])
    /\ inflight' = Finish(r)
    /\ resp' = VerifyResp("routes", <<>>, r.orderId, 200, verificationResult, FALSE, -1, -1,
                          r.remote, r.overtaken)
    /\ lastFetched' = MapSet(lastFetched, r.orderId,
                             [data |-> verificationResult, at |-> now])

\* a fault of the cache write: a PAID entry is not replaced by a result of
\* another status (the entries are versioned by status)
FinishVerifyRoutesNewest(r, paymentDetails) ==
    LET key == CacheKeyRoutes(r.orderId)
        verificationResult == RoutesResult(r.orderId, r.answer, paymentDetails, now)
    IN
    /\ verificationCache' =
           IF /\ MapHas(verificationCache, key)
              /\ verificationCache[key].data.order_status = "PAID"
              /\ verificationResult.order_status # "PAID"
           THEN verificationCache
           ELSE cleanupVerificationCache(
                    MapSet(verificationCache, key,
                           [data |-> verificationResult, timestamp |-> now]), now)
    /\ inflight' = Finish(r)
    /\ resp' = VerifyResp("routes", <<>>, r.orderId, 200, verificationResult, FALSE, -1, -1,
                          r.remote, r.overtaken)
    /\ lastFetched' = MapSet(lastFetched, r.orderId,
                             [data |-> verificationResult, at |-> now])

\* builds the result, caches it, cleans up, responds
FinishVerifyRoutes(r, paymentDetails) ==
    LET key == CacheKeyRoutes(r.orderId)
        verificationResult == RoutesResult(r.orderId, r.answer, paymentDetails, now)
    IN
    /\ verificationCache' =
           cleanupVerificationCache(
               MapSet(verificationCache, key,
                      [data |-> verificationResult, timestamp |-> now]), now)
    /\ inflight' = Finish(r)
    /\ resp' = VerifyResp("routes", <<>>, r.orderId, 200, verificationResult, FALSE, -1, -1,
                          r.remote, r.overtaken)
    /\ lastFetched' = MapSet(lastFetched, r.orderId,
                             [data |-> verificationResult, at |-> now])

\* the continuation after the awaited get of /orders/{orderId}
ResumeVerifyRoutes(r) ==
    /\ r.impl = "routes"
    /\ r.pc = "order-answered"
    /\ UNCHANGED <<impl, now, paymentCache, verificationRateLimit, remoteOrder, wire,
                   ncalls, throttleLog, hooked>>
    /\ IF HasData(r.answer)
       THEN IF r.answer.order_status = "PAID"
            THEN /\ inflight' = Continue(r, [r EXCEPT !.pc = "payments-sent",
                                                      !.remote = @ + 1])
                 /\ resp' = NoResp
                 /\ UNCHANGED <<verificationCache, lastFetched>>
            ELSE FinishVerifyRoutes(r, "null")
       ELSE /\ inflight' = Finish(r)
            /\ resp' = VerifyResp("routes", <<>>, r.orderId,
                                  IF r.answer.kind = "404" THEN 404 ELSE 500,
                                  ErrorBodyRoutes(IF r.answer.kind = "404"
                                                  THEN "Order not found"
                                                  ELSE "Failed to verify payment",
                                                  r.orderId),
                                  FALSE, -1, -1, r.remote, r.overtaken)
            /\ UNCHANGED <<verificationCache, lastFetched>>

\* a fault of the handler: the inner try/catch is missing, a failed payments
\* query fails the verification
ResumePaymentsRoutesStrict(r) ==
    /\ r.impl = "routes"
    /\ r.pc = "payments-answered"
    /\ UNCHANGED <<impl, now, paymentCache, verificationRateLimit, remoteOrder, wire,
                   ncalls, throttleLog, hooked>>
    /\ IF r.details = "null"
       THEN /\ inflight' = Finish(r)
            /\ resp' = VerifyResp("routes", <<>>, r.orderId, 500,
                                  ErrorBodyRoutes("Failed to verify payment", r.orderId),
                                  FALSE, -1, -1, r.remote, r.overtaken)
            /\ UNCHANGED <<verificationCache, lastFetched>>
       ELSE FinishVerifyRoutes(r, r.details)

\* the continuation after the awaited get of /orders/{orderId}/payments
ResumePaymentsRoutes(r) ==
    /\ r.impl = "routes"
    /\ r.pc = "payments-answered"
    /\ UNCHANGED <<impl, now, paymentCache, verificationRateLimit, remoteOrder, wire,
                   ncalls, throttleLog, hooked>>
    /\ FinishVerifyRoutes(r, r.details)

-----------------------------------------------------------------------------
(* routes/payment.js: POST /payment-webhook *)

KnownEvents == {"PAYMENT_SUCCESS_WEBHOOK", "PAYMENT_FAILED_WEBHOOK",
                "PAYMENT_USER_DROPPED_WEBHOOK"}

HandleWebhookRoutes(m) ==
    /\ impl = "routes"
    /\ UNCHANGED <<impl, now, paymentCache, verificationRateLimit, verificationCache,
                   remoteOrder, wire, ncalls, throttleLog>>
    /\ LET webhookData == ParseJSON(m.rawBody)
           o == webhookData.order_id
       IN
       IF ~ verifyWebhookSignature(m.rawBody, m.timestamp, m.signature)
       THEN /\ resp' = WebhookResp("routes", o, 401, m)
            /\ UNCHANGED <<inflight, lastFetched, hooked>>
       ELSE IF ~ webhookData.ok
       THEN /\ resp' = WebhookResp("routes", o, 500, m)
            /\ UNCHANGED <<inflight, lastFetched, hooked>>
       ELSE IF webhookData.type \in KnownEvents /\ ~ webhookData.hasData
       THEN /\ resp' = WebhookResp("routes", o, 500, m)
            /\ UNCHANGED <<inflight, lastFetched, hooked>>
       ELSE /\ resp' = WebhookResp("routes", o, 200, m)
            /\ IF webhookData.type = "PAYMENT_SUCCESS_WEBHOOK"
               THEN /\ inflight' = Overtake(o)
                    /\ lastFetched' = MapDelete(lastFetched, o)
                    /\ hooked' = MapSet(hooked, o, now)
               ELSE UNCHANGED <<inflight, lastFetched, hooked>>

-----------------------------------------------------------------------------
(* server.js: handleWebhook (req.body is the raw request body) *)

\* if (webhookData.type === 'PAYMENT_SUCCESS_WEBHOOK') paymentCache.delete(cacheKey)
InvalidateOnSuccess(cache, webhookData) ==
    IF webhookData.ok /\ webhookData.type = "PAYMENT_SUCCESS_WEBHOOK" /\ webhookData.hasData
    THEN MapDelete(cache, CacheKeyServer(webhookData.order_id))
    ELSE cache

HandleWebhookServer(m) ==
    /\ impl = "server"
    /\ UNCHANGED <<impl, now, verificationRateLimit, verificationCache, remoteOrder,
                   wire, ncalls, throttleLog>>
    /\ LET webhookData == ParseJSON(m.rawBody)
           o == webhookData.order_id
       IN
       IF m.signature # expectedSignature(m.timestamp, m.rawBody)
       THEN /\ resp' = WebhookResp("server", o, 400, m)
            /\ UNCHANGED <<paymentCache, inflight, lastFetched, hooked>>
       ELSE IF ~ webhookData.ok
       THEN /\ resp' = WebhookResp("server", o, 500, m)
            /\ UNCHANGED <<paymentCache, inflight, lastFetched, hooked>>
       ELSE IF webhookData.type = "PAYMENT_SUCCESS_WEBHOOK"
       THEN IF ~ webhookData.hasData
            THEN /\ resp' = WebhookResp("server", o, 500, m)
                 /\ UNCHANGED <<paymentCache, inflight, lastFetched, hooked>>
            ELSE /\ paymentCache' = InvalidateOnSuccess(paymentCache, webhookData)
                 /\ resp' = WebhookResp("server", o, 200, m)
                 /\ inflight' = Overtake(o)
                 /\ lastFetched' = MapDelete(lastFetched, o)
                 /\ hooked' = MapSet(hooked, o, now)
       ELSE /\ resp' = WebhookResp("server", o, 200, m)
            /\ UNCHANGED <<paymentCache, inflight, lastFetched, hooked>>

-----------------------------------------------------------------------------
(* server.js: cleanupCache, run by setInterval every 5 minutes *)

SWEEP_INTERVAL == 5 * 60 * 1000

\* a fault of the sweep: the loop stops after the first entry it deletes
cleanupPaymentCacheFirst(cache, t) ==
    LET old == {x \in DOMAIN cache : t - cache[x].timestamp > CACHE_DURATION_SERVER} IN
    IF old = {} THEN cache ELSE MapDelete(cache, CHOOSE x \in old : TRUE)

cleanupPaymentCache(cache, t) ==
    [k \in {x \in DOMAIN cache : ~ (t - cache[x].timestamp > CACHE_DURATION_SERVER)}
        |-> cache[k]]

\* a fault of the sweep: every throttle entry is removed, whatever its age
cleanupRateLimitAll(m, t) ==
    [k \in {x \in DOMAIN m : FALSE} |-> m[k]]

cleanupRateLimit(m, t) ==
    [k \in {x \in DOMAIN m : ~ (t - m[x].lastCall > RATE_STALE)} |-> m[k]]

cleanupCache ==
    /\ impl = "server"
    /\ now >= SWEEP_INTERVAL
    /\ paymentCache' = cleanupPaymentCache(paymentCache, now)
    /\ verificationRateLimit' = cleanupRateLimit(verificationRateLimit, now)
    /\ resp' = AdminResp("sweep", <<>>, 0)
    /\ UNCHANGED <<impl, now, verificationCache, inflight, remoteOrder, wire, ncalls, throttleLog, lastFetched, hooked>>

-----------------------------------------------------------------------------
(* server.js: POST /api/clear-cache *)

\* a fault of the endpoint: the orderId is ignored and everything is cleared
ClearCacheAll(orderId) ==
    /\ impl = "server"
    /\ resp' = [AdminResp("clear", orderId, 200) EXCEPT !.data =
                   IF orderId # NoOrderId
                   THEN [deleted |-> MapHas(paymentCache, CacheKeyServer(orderId))]
                   ELSE <<>>]
    /\ UNCHANGED <<impl, now, verificationCache, inflight, remoteOrder, wire, ncalls, hooked>>
    /\ paymentCache' = EmptyMap
    /\ verificationRateLimit' = EmptyMap
    /\ lastFetched' = EmptyMap
    /\ throttleLog' = EmptyMap

\* res.json({success, message, deleted}) with orderId; res.json({success, message})
\* without
ClearCache(orderId) ==
    /\ impl = "server"
    /\ resp' = [AdminResp("clear", orderId, 200) EXCEPT !.data =
                   IF orderId # NoOrderId
                   THEN [deleted |-> MapHas(paymentCache, CacheKeyServer(orderId))]
                   ELSE <<>>]
    /\ UNCHANGED <<impl, now, verificationCache, inflight, remoteOrder, wire, ncalls, hooked>>
    /\ IF orderId # NoOrderId
       THEN /\ paymentCache' = MapDelete(paymentCache, CacheKeyServer(orderId))
            /\ lastFetched' = MapDelete(lastFetched, orderId)
            /\ UNCHANGED <<verificationRateLimit, throttleLog>>
       ELSE /\ paymentCache' = EmptyMap
            /\ verificationRateLimit' = EmptyMap
            /\ lastFetched' = EmptyMap
            /\ throttleLog' = EmptyMap

-----------------------------------------------------------------------------
(* Environment *)

\* the processor answers an outstanding query (kinds: the answers the run
\* exercises)
RemoteAnswer(r, kinds) ==
    /\ \/ /\ r.pc = "order-sent"
          /\ \E ans \in {a \in OrderAnswers(r.orderId) : a.kind \in kinds} :
                inflight' = Continue(r, [r EXCEPT !.pc = "order-answered",
                                                  !.answer = ans])
       \/ /\ r.pc = "payments-sent"
          /\ \E ans \in PaymentsAnswers :
                inflight' = Continue(r, [r EXCEPT !.pc = "payments-answered",
                                                  !.details =
                                                      IF ans.kind = "ok" THEN "payments"
                                                      ELSE "null"])
    /\ resp' = NoResp
    /\ UNCHANGED <<impl, now, paymentCache, verificationRateLimit, verificationCache,
                   remoteOrder, wire, ncalls, throttleLog, lastFetched, hooked>>

\* the changes of order status the runs exercise
StatusChanges == {<<OrderX, "PAID">>, <<OrderX, "EXPIRED">>}

\* the webhook bodies the runs exercise
Bodies == {Body("PAYMENT_SUCCESS_WEBHOOK", OrderX)}

\* a body cut short: not well-formed JSON
Truncated(rawBody) == SubSeq(rawBody, 1, Len(rawBody) - 1)

\* the bodies of the webhook runs: the three known events and an unknown one,
\* known events without data, a body that is not JSON
WebhookBodies ==
    {Body("PAYMENT_SUCCESS_WEBHOOK", OrderX),
     Body("PAYMENT_FAILED_WEBHOOK", OrderX),
     Body("PAYMENT_USER_DROPPED_WEBHOOK", OrderX),
     Body("REFUND_STATUS_WEBHOOK", OrderX),
     Body("PAYMENT_SUCCESS_WEBHOOK", <<>>),
     Body("PAYMENT_FAILED_WEBHOOK", <<>>),
     Truncated(Body("PAYMENT_SUCCESS_WEBHOOK", OrderX))}

\* the customer pays, or the order lapses
OrderChanges(o, st) ==
    /\ o \in DOMAIN remoteOrder
    /\ remoteOrder[o] = "ACTIVE"
    /\ remoteOrder' = [remoteOrder EXCEPT ![o] = st]
    /\ resp' = NoResp
    /\ UNCHANGED <<impl, now, paymentCache, verificationRateLimit, verificationCache,
                   inflight, wire, ncalls, throttleLog, lastFetched, hooked>>

\* the processor signs and sends a webhook; PAYMENT_SUCCESS only for a paid order
ProcessorSends(rawBody, maxWire) ==
    /\ Cardinality(wire) < maxWire
    /\ \A o \in DOMAIN remoteOrder :
          rawBody = Body("PAYMENT_SUCCESS_WEBHOOK", o) => remoteOrder[o] = "PAID"
    /\ Signed(rawBody, now) \notin wire
    /\ wire' = wire \cup {Signed(rawBody, now)}
    /\ resp' = NoResp
    /\ UNCHANGED <<impl, now, paymentCache, verificationRateLimit, verificationCache,
                   inflight, remoteOrder, ncalls, throttleLog, lastFetched,
                   hooked>>

\* time passes
Tick(t) ==
    /\ t > now
    /\ now' = t
    /\ resp' = NoResp
    /\ UNCHANGED <<impl, paymentCache, verificationRateLimit, verificationCache,
                   inflight, remoteOrder, wire, ncalls, throttleLog,
                   lastFetched, hooked>>

-----------------------------------------------------------------------------

Init ==
    /\ impl \in {"server", "routes"}
    /\ now = 0
    /\ paymentCache = EmptyMap
    /\ verificationRateLimit = EmptyMap
    /\ verificationCache = EmptyMap
    /\ inflight = EmptyBag
    /\ remoteOrder \in [Orders -> {"ACTIVE"}]
    /\ wire = {}
    /\ resp = NoResp
    /\ ncalls = 0
    /\ throttleLog = EmptyMap
    /\ lastFetched = EmptyMap
    /\ hooked = EmptyMap

Next ==
    \/ \E o \in {OrderX} : VerifyPaymentServer(Ip1, o, MaxCalls, MaxInflight, FALSE)
    \/ \E r \in Suspended : ResumeVerifyServer(r)
    \/ \E o \in {OrderX} : VerifyPaymentRoutes(o, MaxCalls, MaxInflight)
    \/ \E r \in Suspended : ResumeVerifyRoutes(r)
    \/ \E r \in Suspended : ResumePaymentsRoutes(r)
    \/ \E m \in wire : HandleWebhookRoutes(m)
    \/ \E r \in Suspended : RemoteAnswer(r, {"ok"})
    \/ \E m \in wire : HandleWebhookServer(m)
    \/ cleanupCache
    \/ \E o \in {OrderX, NoOrderId} : ClearCache(o)
    \/ \E c \in StatusChanges : OrderChanges(c[1], c[2])
    \/ \E b \in Bodies : ProcessorSends(b, MaxWire)
    \/ \E t \in (IF impl = "server" THEN InstantsServer ELSE InstantsRoutes) : Tick(t)

Spec == Init /\ [][Next]_vars

-----------------------------------------------------------------------------
(* utils/validation.js *)

\* /^WX\d{13}$/.test(orderId)
validateOrderId(orderId) ==
    /\ Len(orderId) = 15
    /\ orderId[1] = "W"
    /\ orderId[2] = "X"
    /\ \A i \in 3..15 : orderId[i] \in Digits

\* validatePaymentVerification(data).isValid
validatePaymentVerification(orderId) ==
    /\ ~ (orderId = NoOrderId)
    /\ ~ (orderId # NoOrderId /\ ~ validateOrderId(orderId))

-----------------------------------------------------------------------------
(* Runs on the order id a client sends: well-formed, malformed, missing *)

NextInput ==
    \/ \E o \in {OrderX, BadId, NoOrderId} : VerifyPaymentServer(Ip1, o, MaxCalls, MaxInflight, FALSE)
    \/ \E r \in Suspended : ResumeVerifyServer(r)
    \/ \E o \in {OrderX, BadId, NoOrderId} : VerifyPaymentRoutes(o, MaxCalls, MaxInflight)
    \/ \E r \in Suspended : ResumeVerifyRoutes(r)
    \/ \E r \in Suspended : ResumePaymentsRoutes(r)
    \/ \E r \in Suspended : RemoteAnswer(r, AnswerKinds)
    \/ \E c \in {<<OrderX, "PAID">>} : OrderChanges(c[1], c[2])
    \/ \E t \in {1000} : Tick(t)

SpecInput == Init /\ [][NextInput]_vars

-----------------------------------------------------------------------------
(* Runs on what arrives at the webhook endpoint: deliveries of the          *)
(* processor, forged signatures, rewritten timestamps                       *)

\* the instants of the webhook runs (ms): a delivery is handled at once or
\* 20 s after it was signed
WebhookInstants == {20000}

NextWebhook ==
    \/ \E m \in Arrivals : HandleWebhookRoutes(m)
    \/ \E m \in Arrivals : HandleWebhookServer(m)
    \/ VerifyPaymentServer(Ip1, OrderX, MaxCalls, 1, FALSE)
    \/ \E r \in Suspended : ResumeVerifyServer(r)
    \/ VerifyPaymentRoutes(OrderX, MaxCalls, 1)
    \/ \E r \in Suspended : ResumeVerifyRoutes(r)
    \/ \E r \in Suspended : ResumePaymentsRoutes(r)
    \/ \E r \in Suspended : RemoteAnswer(r, {"ok"})
    \/ OrderChanges(OrderX, "PAID")
    \/ \E b \in WebhookBodies : ProcessorSends(b, MaxWire)
    \/ \E t \in WebhookInstants : Tick(t)

SpecWebhook == Init /\ [][NextWebhook]_vars

-----------------------------------------------------------------------------
(* Runs on the throttle of server.js: bursts of calls from one client for   *)
(* two orders, around the 2 s cooldown                                      *)

InitThrottle ==
    /\ impl = "server"
    /\ now = 0
    /\ paymentCache = EmptyMap
    /\ verificationRateLimit = EmptyMap
    /\ verificationCache = EmptyMap
    /\ inflight = EmptyBag
    /\ remoteOrder \in [Orders -> {"ACTIVE"}]
    /\ wire = {}
    /\ resp = NoResp
    /\ ncalls = 0
    /\ throttleLog = EmptyMap
    /\ lastFetched = EmptyMap
    /\ hooked = EmptyMap

NextThrottle ==
    \/ \E o \in Orders : VerifyPaymentServer(Ip1, o, MaxBurst, 1, TRUE)
    \/ \E r \in Suspended : ResumeVerifyServer(r)
    \/ \E r \in Suspended : RemoteAnswer(r, {"ok"})
    \/ \E c \in {<<OrderX, "PAID">>} : OrderChanges(c[1], c[2])
    \/ ClearCache(NoOrderId)
    \/ \E t \in BurstInstants : Tick(t)

SpecThrottle == InitThrottle /\ [][NextThrottle]_vars

-----------------------------------------------------------------------------
(* Properties *)

TTLOf(im) == IF im = "server" THEN CACHE_DURATION_SERVER ELSE CACHE_DURATION_ROUTES

CacheOf(im) == IF im = "server" THEN paymentCache ELSE verificationCache

CacheKeyOf(im, o) == IF im = "server" THEN CacheKeyServer(o) ELSE CacheKeyRoutes(o)

ServedFromCache == resp.kind = "verify" /\ resp.fromCache

\* C1: a verification response is served from the cache only if, at the
\* moment of the read, now - entry.timestamp < TTL (300 s in server.js, 30 s
\* in routes/payment.js); a cache hit changes neither cache, so no result is
\* served TTL or more after it was written (routes/payment.js stamps the
\* result itself with the time of writing, verified_at).
C1_CacheReadsWithinTTL ==
    /\ [](ServedFromCache =>
            /\ now - resp.entryTs < TTLOf(resp.impl)
            /\ resp.impl = "routes" => now - resp.data.verified_at < CACHE_DURATION_ROUTES)
    /\ [][ServedFromCache' =>
            /\ paymentCache' = paymentCache
            /\ verificationCache' = verificationCache]_vars

\* a result cached earlier is served again, more than a second later
C1_Witness ==
    /\ ServedFromCache
    /\ now - resp.entryTs >= 1000
    /\ MapHas(CacheOf(impl), CacheKeyOf(impl, resp.orderId))
    /\ CacheOf(impl)[CacheKeyOf(impl, resp.orderId)].timestamp = resp.entryTs

\* this step receives a verification request for order o
CallStepFor(o) ==
    /\ ncalls' = ncalls + 1
    /\ \/ resp'.kind = "verify" /\ resp'.orderId = o
       \/ /\ resp'.kind = "none"
          /\ \E r \in BagToSet(inflight') :
                r.orderId = o /\ CopiesIn(r, inflight') = CopiesIn(r, inflight) + 1

\* a verification of o succeeded by a remote fetch less than the TTL ago, and
\* no PAYMENT_SUCCESS webhook for o or cache-clear was handled since
RecentlyFetched(o) ==
    MapHas(lastFetched, o) /\ now - lastFetched[o].at < TTLOf(impl)

SameResult(d, e) ==
    [f \in (DOMAIN d) \ {"cached"} |-> d[f]] = [f \in (DOMAIN e) \ {"cached"} |-> e[f]]

\* C2 as stated: for every order status, a second verification inside the TTL
\* window, with no webhook invalidation or cache-clear in between, returns the
\* first result flagged cached=true and issues no remote call.
C2_Original ==
    [][\A o \in Orders :
          CallStepFor(o) /\ RecentlyFetched(o) =>
              /\ ServedFromCache'
              /\ "cached" \in DOMAIN resp'.data
              /\ resp'.data.cached = TRUE
              /\ SameResult(resp'.data, lastFetched[o].data)
              /\ inflight' = inflight]_vars

\* C2 (amended): in server.js a result is cached only when the order status is
\* PAID: after a fetched PAID result, a second verification inside 300 s that
\* the throttle lets through returns that result flagged cached=true without
\* a remote call.  In routes/payment.js, for every order status, a second
\* verification inside 30 s returns the stored result as it is (no cached
\* flag) without a remote call.
C2_SecondCallServedFromCache ==
    [][\A o \in Orders :
          CallStepFor(o) /\ RecentlyFetched(o) =>
              /\ (impl = "server" /\ lastFetched[o].data.order_status = "PAID"
                      /\ resp'.status # 429) =>
                    /\ ServedFromCache'
                    /\ resp'.status = 200
                    /\ resp'.data.cached = TRUE
                    /\ SameResult(resp'.data, lastFetched[o].data)
                    /\ resp'.remote = 0
                    /\ inflight' = inflight
              /\ impl = "routes" =>
                    /\ ServedFromCache'
                    /\ resp'.status = 200
                    /\ "cached" \notin DOMAIN resp'.data
                    /\ resp'.data = lastFetched[o].data
                    /\ resp'.remote = 0
                    /\ inflight' = inflight]_vars

\* a fetched result is served again from the cache, later but inside the TTL
C2_Witness ==
    /\ ServedFromCache
    /\ MapHas(lastFetched, resp.orderId)
    /\ SameResult(resp.data, lastFetched[resp.orderId].data)
    /\ now > lastFetched[resp.orderId].at
    /\ now - lastFetched[resp.orderId].at < TTLOf(impl)

\* the cache holds, for the order of the response just sent, exactly the
\* result that response carried
LeftInCache ==
    /\ MapHas(CacheOf(resp.impl), CacheKeyOf(resp.impl, resp.orderId))
    /\ CacheOf(resp.impl)[CacheKeyOf(resp.impl, resp.orderId)].data = resp.data

\* C3: once a signature-valid PAYMENT_SUCCESS webhook for order X has been
\* handled, no verification of X is answered with a result that was cached
\* before the webhook (in particular not with a PENDING cached before it), in
\* server.js and in routes/payment.js.
C3_NoResultCachedBeforeWebhook ==
    (ServedFromCache /\ MapHas(hooked, resp.orderId)) =>
        resp.entryTs >= hooked[resp.orderId]

\* C4: a verification that was suspended at its remote fetch while a
\* PAYMENT_SUCCESS webhook for its order was handled does not leave its
\* non-SUCCESS result in the cache, and no later verification is answered from
\* a non-SUCCESS entry written after the webhook.
C4_NoStaleWriteAfterWebhook ==
    /\ (resp.kind = "verify" /\ resp.overtaken /\ resp.status = 200
            /\ resp.data.payment_status # "SUCCESS") => ~ LeftInCache
    /\ (ServedFromCache /\ MapHas(hooked, resp.orderId)
            /\ resp.entryTs > hooked[resp.orderId]) =>
          resp.data.payment_status = "SUCCESS"

FRESHNESS_WINDOW == 300

Abs(x) == IF x < 0 THEN -x ELSE x

\* the delivery answered by the last step carries the digest of its own
\* timestamp and body under the shared secret
CorrectlySigned ==
    /\ resp.kind = "webhook"
    /\ resp.data.signature = Hmac(SECRET, <<ToString(resp.data.timestamp)>> \o resp.data.rawBody)

\* C5: a correctly signed webhook whose timestamp is more than 300 seconds
\* from the current time is rejected with an authentication error; one that
\* is 100 seconds old is accepted.
C5_StaleWebhookRejected ==
    CorrectlySigned =>
        /\ Abs(now \div 1000 - resp.data.timestamp) > FRESHNESS_WINDOW =>
              resp.status \in {400, 401}
        /\ Abs(now \div 1000 - resp.data.timestamp) <= 100 =>
              resp.status \notin {400, 401}

\* C6: a verification call whose orderId is not "WX" followed by 13 digits
\* (or is missing) is answered 400 before any throttle update, cache access
\* or remote call.
C6_InvalidOrderIdRejectedFirst ==
    [][\A o \in OrderIdInputs :
          (CallStepFor(o) /\ ~ validateOrderId(o)) =>
              /\ resp'.kind = "verify"
              /\ resp'.status = 400
              /\ verificationRateLimit' = verificationRateLimit
              /\ paymentCache' = paymentCache
              /\ verificationCache' = verificationCache
              /\ inflight' = inflight]_vars

-----------------------------------------------------------------------------
(* Throttle properties, over the log of the calls made for each key *)

Accepted(L, from, to) ==
    Cardinality({i \in 1..Len(L) : L[i].ok /\ L[i].t >= from /\ L[i].t < to})

\* the first six calls for a key arrive less than 2 s apart
SixInWindow(L) == Len(L) >= 6 /\ L[6].t - L[1].t < RATE_COOLDOWN

\* C7: for one (client IP, orderId) key, when six calls arrive within the 2 s
\* cooldown window the first five pass and the sixth is rejected with 429; a
\* seventh call made a full cooldown window after the sixth passes.
C7_SixthRejectedSeventhPasses ==
    /\ \A k \in DOMAIN throttleLog :
          LET L == throttleLog[k] IN
          SixInWindow(L) =>
              /\ \A i \in 1..5 : L[i].ok
              /\ ~ L[6].ok
              /\ (Len(L) >= 7 /\ L[7].t - L[6].t >= RATE_COOLDOWN) => L[7].ok
    /\ (resp.kind = "verify" /\ resp.impl = "server" /\ resp.status = 429) =>
          LET L == throttleLog[RateKey(resp.ip, resp.orderId)] IN ~ L[Len(L)].ok

\* six calls at one instant, the seventh exactly 2 s later
C7_Witness ==
    \E k \in DOMAIN throttleLog :
        LET L == throttleLog[k] IN
        /\ Len(L) = 7
        /\ SixInWindow(L)
        /\ L[7].t - L[6].t = RATE_COOLDOWN
        /\ L[7].ok
        /\ resp.kind = "none" \/ resp.status # 429

\* C8: for every key, in the window opened by the call that set the counter
\* to 1 (lastCall) and lasting 2 s, at most 5 calls are accepted; the others
\* are answered at once with a rejection (none is left suspended).
C8_AtMostFivePerWindow ==
    \A k \in DOMAIN verificationRateLimit :
        MapHas(throttleLog, k) =>
            LET L == throttleLog[k]
                w == verificationRateLimit[k].lastCall
            IN
            /\ Accepted(L, w, w + RATE_COOLDOWN) <= RATE_MAX_CALLS
            /\ \A i \in 1..Len(L) :
                  (L[i].t >= w /\ ~ L[i].ok) => verificationRateLimit[k].count > RATE_MAX_CALLS

\* a window with five accepted calls and a rejected one
C8_Witness ==
    \E k \in DOMAIN verificationRateLimit :
        /\ MapHas(throttleLog, k)
        /\ LET L == throttleLog[k]
               w == verificationRateLimit[k].lastCall
           IN
           /\ Accepted(L, w, w + RATE_COOLDOWN) = RATE_MAX_CALLS
           /\ \E i \in 1..Len(L) : L[i].t >= w /\ ~ L[i].ok

AcceptedFrom(ip, from, to) ==
    LET n[S \in SUBSET Orders] ==
            IF S = {} THEN 0
            ELSE LET o == CHOOSE x \in S : TRUE
                     k == RateKey(ip, o)
                 IN (IF MapHas(throttleLog, k)
                     THEN Accepted(throttleLog[k], from, to) ELSE 0) + n[S \ {o}]
    IN n[Orders]

\* C9: for every client IP, at most 5 verification requests pass the throttle
\* in any 2-second window, whatever order ids they carry.
C9_FivePerIP ==
    \A ip \in IPs : \A from \in BurstInstants :
        AcceptedFrom(ip, from, from + RATE_COOLDOWN) <= RATE_MAX_CALLS

\* C10: a verification call rejected by the throttle is answered 429, issues
\* no remote call and leaves paymentCache as it was.
C10_RejectionTouchesNothing ==
    [][(resp'.kind = "verify" /\ resp'.status = 429) =>
          /\ ncalls' = ncalls + 1
          /\ paymentCache' = paymentCache
          /\ inflight' = inflight
          /\ resp'.remote = 0]_vars

\* a call is rejected while the cache holds a result
C10_Witness ==
    /\ resp.kind = "verify"
    /\ resp.status = 429
    /\ MapHas(paymentCache, CacheKeyServer(resp.orderId))

-----------------------------------------------------------------------------
(* Runs on the refresh of an expired entry: the processor may report any    *)
(* status for an order at any time                                          *)

ReportedStatuses == {"ACTIVE", "PAID", "EXPIRED"}

\* response.data.order_status of the next answer is st
ProcessorReports(o, st) ==
    /\ o \in DOMAIN remoteOrder
    /\ remoteOrder[o] # st
    /\ remoteOrder' = [remoteOrder EXCEPT ![o] = st]
    /\ resp' = NoResp
    /\ UNCHANGED <<impl, now, paymentCache, verificationRateLimit, verificationCache,
                   inflight, wire, ncalls, throttleLog, lastFetched, hooked>>

NextRefresh ==
    \/ VerifyPaymentServer(Ip1, OrderX, MaxCalls, MaxInflight, FALSE)
    \/ \E r \in Suspended : ResumeVerifyServer(r)
    \/ VerifyPaymentRoutes(OrderX, MaxCalls, MaxInflight)
    \/ \E r \in Suspended : ResumeVerifyRoutes(r)
    \/ \E r \in Suspended : ResumePaymentsRoutes(r)
    \/ \E r \in Suspended : RemoteAnswer(r, {"ok", "fail"})
    \/ \E st \in ReportedStatuses : ProcessorReports(OrderX, st)
    \/ \E t \in (IF impl = "server" THEN InstantsServer ELSE InstantsRoutes) : Tick(t)

SpecRefresh == Init /\ [][NextRefresh]_vars

\* the cache holds an entry for o whose TTL has elapsed
StaleEntry(o) ==
    /\ MapHas(CacheOf(impl), CacheKeyOf(impl, o))
    /\ now - CacheOf(impl)[CacheKeyOf(impl, o)].timestamp >= TTLOf(impl)

\* this step issues exactly one order query for o and answers nothing yet
IssuesOneOrderQuery(o) ==
    /\ resp'.kind = "none"
    /\ \E r \in BagToSet(inflight') :
          /\ r.orderId = o
          /\ r.pc = "order-sent"
          /\ r.remote = 1
          /\ inflight' = Suspend(r)

\* this step answers a verification with a result fetched from the processor
FetchedStep ==
    /\ resp'.kind = "verify"
    /\ ~ resp'.fromCache
    /\ resp'.status = 200
    /\ resp'.remote >= 1

\* the handler that answers in this step found the entry of its order expired
\* when it was called, and the entry is still the expired one
RefreshStep ==
    /\ FetchedStep
    /\ StaleEntry(resp'.orderId)
    /\ \E r \in Suspended :
          r.expired /\ r.orderId = resp'.orderId /\ inflight' = Finish(r)

\* after this step the entry of the answered order is the answered result,
\* stamped with the current time
EntryReplaced ==
    LET key == CacheKeyOf(impl, resp'.orderId) IN
    /\ MapHas(CacheOf(impl)', key)
    /\ CacheOf(impl)'[key] = [data |-> resp'.data, timestamp |-> now]

\* C11 as stated: once the TTL of the entry of X has elapsed, the next
\* verification of X (that the throttle lets through) issues exactly one
\* order query and, when the query succeeds, the entry of X becomes the fresh
\* result with a fresh timestamp, whatever the order status.
C11_Original ==
    [][/\ \A o \in Orders :
            (CallStepFor(o) /\ StaleEntry(o) /\ resp'.status # 429) =>
                IssuesOneOrderQuery(o)
       /\ RefreshStep => EntryReplaced]_vars

\* C11 (amended): the call issues exactly one order query; when it succeeds,
\* routes/payment.js replaces the entry whatever the status, and server.js
\* replaces it only when the fresh status is PAID: for any other status
\* paymentCache is left as it was (the expired entry stays and is not served).
C11_ExpiredEntryRefreshed ==
    [][/\ \A o \in Orders :
            (CallStepFor(o) /\ StaleEntry(o) /\ resp'.status # 429) =>
                IssuesOneOrderQuery(o)
       /\ RefreshStep =>
            /\ resp'.remote = 1 \/ (impl = "routes" /\ resp'.data.order_status = "PAID"
                                        /\ resp'.remote = 2)
            /\ impl = "routes" => EntryReplaced
            /\ (impl = "server" /\ resp'.data.order_status = "PAID") => EntryReplaced
            /\ (impl = "server" /\ resp'.data.order_status # "PAID") =>
                  paymentCache' = paymentCache]_vars

\* an expired entry is in the cache while the handler that found it expired
\* holds the successful answer of its query, with a status other than the
\* cached one
C11_Witness ==
    \E r \in Suspended :
        /\ r.expired
        /\ r.pc = "order-answered"
        /\ r.answer.kind = "ok"
        /\ StaleEntry(r.orderId)
        /\ r.answer.order_status #
              CacheOf(impl)[CacheKeyOf(impl, r.orderId)].data.order_status

-----------------------------------------------------------------------------
(* Failures of the order query *)

\* the order query did not bring an order: timeout/5xx, 404, no body, a body
\* that is not an order
FailureKinds == {"fail", "404", "nodata", "malformed"}

\* in this step the handler that holds request r, whose order query was
\* answered, runs on (to its response or to its next await)
Resumes(r) ==
    /\ r.pc = "order-answered"
    /\ ncalls' = ncalls
    /\ CopiesIn(r, inflight') = CopiesIn(r, inflight) - 1
    /\ BagCardinality(inflight') <= BagCardinality(inflight)

\* C12: every verification that misses the cache issues exactly one order
\* query and never retries it: when the query fails (timeout, 5xx, 404,
\* malformed payload) the handler answers with an error and issues no further
\* remote call.
C12_OneQueryNoRetry ==
    [][/\ \A o \in OrderIdInputs :
            (CallStepFor(o) /\ resp'.kind = "none") => IssuesOneOrderQuery(o)
       /\ \A r \in Suspended :
            (Resumes(r) /\ r.answer.kind \in FailureKinds) =>
                /\ inflight' = Finish(r)
                /\ resp'.kind = "verify"
                /\ resp'.status >= 400
                /\ resp'.remote = 1]_vars

\* C13: when the order query of a verification fails, both caches are left
\* exactly as they were before the call (no entry created, overwritten or
\* deleted).
C13_FailureLeavesCache ==
    [][\A r \in Suspended :
          (Resumes(r) /\ r.answer.kind \in FailureKinds) =>
              /\ paymentCache' = paymentCache
              /\ verificationCache' = verificationCache]_vars

\* C14: a 404 of the processor is answered 404 'Order not found' with the
\* order id; every other failure of the order query is answered 500; in both
\* verification endpoints.
C14_NotFoundMapped ==
    [][\A r \in Suspended :
          (Resumes(r) /\ r.answer.kind \in FailureKinds) =>
              /\ resp'.kind = "verify"
              /\ r.answer.kind = "404" =>
                    /\ resp'.status = 404
                    /\ resp'.data.error = "Order not found"
                    /\ "order_id" \in DOMAIN resp'.data
                    /\ resp'.data.order_id = r.orderId
              /\ r.answer.kind # "404" => resp'.status = 500]_vars

-----------------------------------------------------------------------------
(* Status mapping *)

\* C15: in every verification result the payment_status is SUCCESS when the
\* order status is PAID, PENDING when it is ACTIVE, and FAILED for every
\* other status (e.g. EXPIRED), in both verification endpoints.
C15_StatusMapping ==
    (resp.kind = "verify" /\ resp.status = 200) =>
        resp.data.payment_status =
            (IF resp.data.order_status = "PAID" THEN "SUCCESS"
             ELSE IF resp.data.order_status = "ACTIVE" THEN "PENDING"
             ELSE "FAILED")

-----------------------------------------------------------------------------
(* Webhook handling *)

\* this step answers a webhook delivery
WebhookStep == resp'.kind = "webhook"

\* the delivery answered by this step carries the digest of its own
\* timestamp header and body under the shared secret
ValidSignature(m) ==
    /\ m.timestamp # NoTimestamp
    /\ m.signature = Hmac(SECRET, <<ToString(m.timestamp)>> \o m.rawBody)

\* the delivery just answered passed the signature check and its body is JSON
SignedJSON ==
    /\ resp.kind = "webhook"
    /\ ValidSignature(resp.data)
    /\ ParseJSON(resp.data.rawBody).ok

\* C16: once the signature check has passed and the body parses as JSON, the
\* webhook handler answers 200, for every event type and payload shape,
\* a known event without data included.
C16_AlwaysAcknowledged ==
    SignedJSON => resp.status = 200

C18_OtherEventsNoMutation ==
    [][(/\ WebhookStep
        /\ ValidSignature(resp'.data)
        /\ ParseJSON(resp'.data.rawBody).ok
        /\ ParseJSON(resp'.data.rawBody).type # "PAYMENT_SUCCESS_WEBHOOK") =>
          /\ resp'.status = 200
          /\ paymentCache' = paymentCache
          /\ verificationCache' = verificationCache
          /\ verificationRateLimit' = verificationRateLimit]_vars

\* a body that lacks its closing brace is not well-formed JSON
NotJSON(rawBody) == rawBody[Len(rawBody)] # "}"

\* C19: a webhook with a valid signature whose body is not well-formed JSON is
\* answered 500, not acknowledged, and changes no cache entry.
C19_MalformedBodyRejected ==
    [][(/\ WebhookStep
        /\ ValidSignature(resp'.data)
        /\ NotJSON(resp'.data.rawBody)) =>
          /\ resp'.status = 500
          /\ paymentCache' = paymentCache
          /\ verificationCache' = verificationCache
          /\ hooked' = hooked]_vars

\* a correctly signed body that is not JSON is answered 500 while the cache
\* holds a result
C19_Witness ==
    /\ resp.kind = "webhook"
    /\ ValidSignature(resp.data)
    /\ NotJSON(resp.data.rawBody)
    /\ resp.status = 500
    /\ DOMAIN CacheOf(impl) # {}

\* the body with its i-th character replaced by another one
FlipAt(rawBody, i) == [rawBody EXCEPT ![i] = IF @ = "0" THEN "1" ELSE "0"]

\* C20: for every body and timestamp the processor signs, the verifier
\* accepts the signature generated for them and rejects the one generated for
\* a body that differs in a single character; and every signature generator
\* of the repository concatenates timestamp and body as the webhook verifier
\* does (timestamp first).
C20_SignatureRoundTrip ==
    \A m \in wire :
        /\ verifyWebhookSignature(m.rawBody, m.timestamp,
                                  generateSignature(m.rawBody, m.timestamp))
        /\ \A i \in 1..Len(m.rawBody) :
              ~ verifyWebhookSignature(m.rawBody, m.timestamp,
                                       generateSignature(FlipAt(m.rawBody, i), m.timestamp))
        /\ generateSignature(m.rawBody, m.timestamp)
              = expectedSignature(m.timestamp, m.rawBody)
        /\ generateSignatureServer(m.rawBody, m.timestamp)
              = expectedSignature(m.timestamp, m.rawBody)

-----------------------------------------------------------------------------
(* Runs on the maintenance of the caches: the 5-minute sweep and the       *)
(* clear-cache endpoint of server.js, the cleanup pass of routes/payment.js *)

\* the instants of the maintenance runs (ms): between and after the sweeps
SweepInstants == {0, 200000, 400000, 900000}

NextSweep ==
    \/ \E o \in Orders : VerifyPaymentServer(Ip1, o, MaxCalls, 1, FALSE)
    \/ \E r \in Suspended : ResumeVerifyServer(r)
    \/ VerifyPaymentRoutes(OrderX, MaxCalls, 1)
    \/ \E r \in Suspended : ResumeVerifyRoutes(r)
    \/ \E r \in Suspended : ResumePaymentsRoutes(r)
    \/ \E r \in Suspended : RemoteAnswer(r, {"ok"})
    \/ \E o \in Orders : OrderChanges(o, "PAID")
    \/ cleanupCache
    \/ \E o \in {OrderX, NoOrderId} : ClearCache(o)
    \/ \E t \in SweepInstants : Tick(t)

SpecSweep == Init /\ [][NextSweep]_vars

\* the step just taken was a run of cleanupCache
Swept == resp.kind = "sweep"

\* what a run of cleanupCache at time t leaves of the two maps as they are now
SweepAt(t) ==
    [paymentCache |-> cleanupPaymentCache(paymentCache, t),
     verificationRateLimit |-> cleanupRateLimit(verificationRateLimit, t)]

Unswept == [paymentCache |-> paymentCache,
            verificationRateLimit |-> verificationRateLimit]

\* C21 as stated: after a run of cleanupCache, a second run with no write to
\* either map in between, at whatever later time the timer fires, leaves both
\* maps as the first run left them.
C21_Original ==
    Swept => \A t \in {s \in SweepInstants : s >= now} : SweepAt(t) = Unswept

\* C21: after a run of cleanupCache, a second run at the same clock reading,
\* with no write to either map in between, leaves paymentCache and
\* verificationRateLimit exactly as the first run left them.
C21_SweepIdempotent ==
    Swept => SweepAt(now) = Unswept

\* a sweep has just removed an expired result and kept a fresh one
C21_Witness ==
    /\ Swept
    /\ paymentCache # EmptyMap
    /\ verificationRateLimit # EmptyMap
    /\ \E o \in Orders :
          /\ MapHas(lastFetched, o)
          /\ lastFetched[o].data.order_status = "PAID"
          /\ ~ MapHas(paymentCache, CacheKeyServer(o))

-----------------------------------------------------------------------------
(* Eviction *)

\* this step answers a verification whose handler, when called, found an
\* entry for its order that was too old to be served
AnswersAfterStaleRead ==
    /\ resp'.kind = "verify"
    /\ ~ resp'.fromCache
    /\ \E r \in Suspended :
          r.expired /\ r.orderId = resp'.orderId /\ inflight' = Finish(r)

\* after this step the cache holds an entry for o that is too old to be served
StaleEntryLeft(o) ==
    LET cache == CacheOf(impl)'
        key == CacheKeyOf(impl, o)
    IN MapHas(cache, key) /\ now' - cache[key].timestamp >= TTLOf(impl)

\* C22: a cache read that finds an entry whose age is at least the TTL removes
\* it: once the verification call that met the stale entry has answered, the
\* cache holds no stale entry for its order, whether the remote fetch
\* succeeded, failed or gave a result that is not cached.
C22_StaleReadEvicts ==
    [][AnswersAfterStaleRead => ~ StaleEntryLeft(resp'.orderId)]_vars

-----------------------------------------------------------------------------
(* Runs that fill the cache of routes/payment.js: one verification after   *)
(* the other, each for a new order, all inside one TTL window               *)

MaxFill == CACHE_MAX_SIZE + 2

Digit(d) == CHOOSE c \in Digits : ToString(d) = c

\* the n-th order id (n < 1000): WX followed by n as 13 decimal digits
OrderN(n) ==
    <<"W", "X">> \o [i \in 1..10 |-> "0"]
                 \o <<Digit(n \div 100), Digit((n \div 10) % 10), Digit(n % 10)>>

FillOrders == {OrderN(n) : n \in 1..MaxFill}

InitFill ==
    /\ impl = "routes"
    /\ now = 0
    /\ paymentCache = EmptyMap
    /\ verificationRateLimit = EmptyMap
    /\ verificationCache = EmptyMap
    /\ inflight = EmptyBag
    /\ remoteOrder = [o \in FillOrders |-> "ACTIVE"]
    /\ wire = {}
    /\ resp = NoResp
    /\ ncalls = 0
    /\ throttleLog = EmptyMap
    /\ lastFetched = EmptyMap
    /\ hooked = EmptyMap

NextFill ==
    \/ VerifyPaymentRoutes(OrderN(ncalls + 1), MaxFill, 1)
    \/ \E r \in Suspended : RemoteAnswer(r, {"ok"})
    \/ \E r \in Suspended : ResumeVerifyRoutes(r)
    \/ \E t \in {20000} : Tick(t)

SpecFill == InitFill /\ [][NextFill]_vars

\* C23: the verification cache of routes/payment.js holds at most 100
\* entries, for any number of distinct order ids verified within one TTL
\* window.
C23_CacheAtMost100 ==
    Cardinality(DOMAIN verificationCache) <= CACHE_MAX_SIZE

\* the maintenance runs under the scheduling the code sets up: time passes,
\* and the interval timer of server.js fires cleanupCache again and again
SpecSweepFair ==
    /\ Init
    /\ [][NextSweep]_vars
    /\ WF_vars(\E t \in SweepInstants : Tick(t))
    /\ WF_vars(cleanupCache)

\* the cache holds the result of order o written at time ts
HoldsEntry(o, ts) ==
    /\ MapHas(CacheOf(impl), CacheKeyOf(impl, o))
    /\ CacheOf(impl)[CacheKeyOf(impl, o)].timestamp = ts

\* C24: every cache entry is eventually removed once its TTL has expired,
\* even if its order is never verified again: in server.js by the 5-minute
\* cleanupCache timer, in routes/payment.js by its cleanup pass.
C24_ExpiredEventuallyRemoved ==
    \A o \in Orders : \A ts \in SweepInstants :
        (HoldsEntry(o, ts) /\ now - ts >= TTLOf(impl)) ~> ~ HoldsEntry(o, ts)

-----------------------------------------------------------------------------
(* Throttle windows *)

\* the time of the call that opened the window in which the i-th call of L
\* falls: the first call opens a window, and so does every call made 2 s or
\* more after the call that opened the window before it
RECURSIVE WindowOpenedAt(_, _)
WindowOpenedAt(L, i) ==
    IF i = 1 THEN L[1].t
    ELSE LET w == WindowOpenedAt(L, i - 1) IN
         IF L[i].t - w >= RATE_COOLDOWN THEN L[i].t ELSE w

\* the i-th call of L is the first one made 2 s or more after the call that
\* opened the window before it
OpensWindow(L, i) ==
    i > 1 /\ L[i].t - WindowOpenedAt(L, i - 1) >= RATE_COOLDOWN

\* C25: a rejected call does not reset or extend the throttle window: for
\* every key, however many calls were rejected inside a window, the first
\* call made 2 s or more after the call that opened the window is accepted,
\* with the counter reset to 1.
C25_RejectionKeepsWindow ==
    \A k \in DOMAIN throttleLog :
        LET L == throttleLog[k]
            n == Len(L)
        IN
        /\ \A i \in 2..n : OpensWindow(L, i) => L[i].ok
        /\ OpensWindow(L, n) =>
              /\ MapHas(verificationRateLimit, k)
              /\ verificationRateLimit[k] = [lastCall |-> L[n].t, count |-> 1]

\* a call rejected 1 ms before the window ends, and the next call, 2 s after
\* the call that opened the window, accepted
C25_Witness ==
    \E k \in DOMAIN throttleLog :
        LET L == throttleLog[k]
            n == Len(L)
        IN
        /\ n >= 3
        /\ OpensWindow(L, n)
        /\ L[n].ok
        /\ ~ L[n - 1].ok
        /\ L[n].t - L[n - 1].t < RATE_COOLDOWN
        /\ verificationRateLimit[k].count = 1

\* C26: checkRateLimit decides by the time of the previous call for the key:
\* it increments the counter when the previous call was less than 2 s ago and
\* resets it to 1 only when the previous call was 2 s or more ago (or there
\* was none); the stored lastCall is the time of the most recent call.
C26_DecidesByPreviousCall ==
    \A k \in DOMAIN throttleLog :
        LET L == throttleLog[k]
            n == Len(L)
        IN
        /\ MapHas(verificationRateLimit, k)
        /\ verificationRateLimit[k].lastCall = L[n].t
        /\ verificationRateLimit[k].count = 1
              <=> (n = 1 \/ L[n].t - L[n - 1].t >= RATE_COOLDOWN)

-----------------------------------------------------------------------------
(* Order of throttle and cache *)

\* this step is a call of the server.js verification handler with an orderId
VerifyCallServer ==
    /\ impl = "server"
    /\ ncalls' = ncalls + 1
    /\ ~ (resp'.kind = "verify" /\ resp'.status = 400)

\* the order the call of this step is about
CalledOrder(o) ==
    \/ resp'.kind = "verify" /\ resp'.orderId = o
    \/ resp'.kind = "none" /\ \E r \in BagToSet(inflight') :
          r.orderId = o /\ inflight' = Suspend(r)

\* C27: in server.js the throttle is consulted before the cache on every
\* verification with an orderId: a call served from the cache still counts
\* in the (IP, orderId) window, and a call the throttle rejects is rejected
\* even when the cache holds a fresh entry for its order.
C27_ThrottleBeforeCache ==
    [][\A o \in Orders :
          (VerifyCallServer /\ CalledOrder(o)) =>
              LET key == RateKey(Ip1, o) IN
              /\ MapHas(verificationRateLimit', key)
              /\ verificationRateLimit'[key].count =
                    (IF InCooldown(verificationRateLimit, key, now)
                     THEN verificationRateLimit[key].count + 1 ELSE 1)
              /\ (InCooldown(verificationRateLimit, key, now)
                  /\ verificationRateLimit[key].count >= RATE_MAX_CALLS)
                    => (resp'.kind = "verify" /\ resp'.status = 429)]_vars

\* the sixth call of a window is rejected although the four calls before it
\* were served from the entry that is still fresh
C27_Witness ==
    /\ resp.kind = "verify"
    /\ resp.status = 429
    /\ CacheFresh(paymentCache, CacheKeyServer(resp.orderId), now, CACHE_DURATION_SERVER)
    /\ LET L == throttleLog[RateKey(resp.ip, resp.orderId)] IN
          /\ Len(L) >= 6
          /\ \A i \in 1..5 : L[Len(L) - i].ok /\ L[Len(L)].t - L[Len(L) - i].t < RATE_COOLDOWN

-----------------------------------------------------------------------------
(* Concurrent verifications of one order *)

\* the handlers for order o that have issued their order query and have not
\* yet gone on after its answer
QueriesInFlight(o) ==
    BagCardinality([r \in {x \in Suspended : x.orderId = o /\ x.remote = 1} |->
                       inflight[r]])

\* C28: in-flight requests for the same order are not deduplicated: every
\* verification call that is not answered at once (missing id, throttle,
\* cache hit) issues its own order query, also when a query for the same
\* order is in flight; so two calls for one order can both miss the cache and
\* both query the processor before either writes the cache.
C28_NoDeduplication ==
    [][ncalls' = ncalls + 1 =>
          \/ /\ resp'.kind = "verify"
             /\ resp'.fromCache \/ resp'.status \in {400, 429}
             /\ inflight' = inflight
          \/ /\ resp'.kind = "none"
             /\ \E r \in BagToSet(inflight') :
                   r.pc = "order-sent" /\ inflight' = Suspend(r)]_vars

\* two order queries for one order are in flight and the cache holds no
\* entry for it
C28_Witness ==
    \E o \in Orders :
        /\ QueriesInFlight(o) >= 2
        /\ ~ MapHas(CacheOf(impl), CacheKeyOf(impl, o))

-----------------------------------------------------------------------------
(* routes/payment.js: the payment-details query *)

\* this step resumes a handler whose payment-details query has failed
PaymentsFailedStep ==
    \E r \in Suspended :
        /\ r.impl = "routes"
        /\ r.pc = "payments-answered"
        /\ r.details = "null"
        /\ inflight' = Finish(r)

\* C29: in routes/payment.js, when the order is PAID and the payment-details
\* query fails, the verification still succeeds: it answers 200 with
\* success, payment_status SUCCESS and payment_details null, and caches that
\* result; the payment-details query is issued only for a PAID order and at
\* most once per call.
C29_PaymentDetailsBestEffort ==
    [][/\ PaymentsFailedStep =>
             /\ resp'.kind = "verify"
             /\ resp'.status = 200
             /\ resp'.data.success
             /\ resp'.data.payment_status = "SUCCESS"
             /\ resp'.data.payment_details = "null"
             /\ MapHas(verificationCache', CacheKeyRoutes(resp'.orderId))
             /\ verificationCache'[CacheKeyRoutes(resp'.orderId)] =
                   [data |-> resp'.data, timestamp |-> now]
       /\ \A r \in BagToSet(inflight') :
             r.pc \in {"payments-sent", "payments-answered"} =>
                 r.impl = "routes" /\ r.answer.order_status = "PAID" /\ r.remote = 2
       /\ (resp'.kind = "verify" /\ resp'.impl = "routes") =>
             /\ resp'.remote <= 2
             /\ resp'.remote = 2 =>
                   resp'.status = 200 /\ resp'.data.order_status = "PAID"]_vars

\* a verification of a paid order answered with success and no payment
\* details after two queries, and its result cached
C29_Witness ==
    /\ resp.kind = "verify"
    /\ resp.impl = "routes"
    /\ resp.status = 200
    /\ resp.remote = 2
    /\ resp.data.payment_status = "SUCCESS"
    /\ resp.data.payment_details = "null"
    /\ MapHas(verificationCache, CacheKeyRoutes(resp.orderId))
    /\ verificationCache[CacheKeyRoutes(resp.orderId)].data = resp.data

-----------------------------------------------------------------------------
(* server.js: clear-cache *)

\* this step answers a clear-cache request
ClearStep == resp'.kind = "clear"

\* C30: clear-cache of server.js with an orderId deletes exactly the cache
\* entry of that order and leaves every other cache entry and all throttle
\* entries unchanged; without an orderId it empties both paymentCache and
\* verificationRateLimit.
C30_ClearCacheFrame ==
    [][ClearStep =>
          IF resp'.orderId # NoOrderId
          THEN LET key == CacheKeyServer(resp'.orderId) IN
               /\ DOMAIN paymentCache' = DOMAIN paymentCache \ {key}
               /\ \A k \in DOMAIN paymentCache' : paymentCache'[k] = paymentCache[k]
               /\ verificationRateLimit' = verificationRateLimit
               /\ resp'.data.deleted = MapHas(paymentCache, key)
          ELSE /\ paymentCache' = EmptyMap
               /\ verificationRateLimit' = EmptyMap]_vars

\* the entry of one order has just been deleted while the cache holds the
\* result of another order and the throttle holds entries
C30_Witness ==
    /\ resp.kind = "clear"
    /\ resp.orderId # NoOrderId
    /\ resp.data.deleted
    /\ \E o \in Orders \ {resp.orderId} : MapHas(paymentCache, CacheKeyServer(o))
    /\ verificationRateLimit # EmptyMap

-----------------------------------------------------------------------------
(* Repeated deliveries *)

\* the step just taken handled a PAYMENT_SUCCESS event with a valid signature
SuccessDelivered ==
    /\ resp.kind = "webhook"
    /\ ValidSignature(resp.data)
    /\ ParseJSON(resp.data.rawBody).ok
    /\ ParseJSON(resp.data.rawBody).type = "PAYMENT_SUCCESS_WEBHOOK"

\* C31: handling the same signature-valid PAYMENT_SUCCESS webhook twice in
\* succession leaves cache and throttle state as handling it once does, and
\* both deliveries are acknowledged (200): in the state the first handling
\* leaves, the delivery has been acknowledged and the only write of a second
\* handling (deleting the entry of the order from paymentCache) changes
\* nothing.
C31_WebhookIdempotent ==
    SuccessDelivered =>
        /\ resp.status = 200
        /\ InvalidateOnSuccess(paymentCache, ParseJSON(resp.data.rawBody)) = paymentCache

-----------------------------------------------------------------------------
(* Runs of one client calling for one order across a window boundary *)

NextVolley ==
    \/ VerifyPaymentServer(Ip1, OrderX, MaxVolley, 1, TRUE)
    \/ \E r \in Suspended : RemoteAnswer(r, {"ok"})
    \/ \E r \in Suspended : ResumeVerifyServer(r)
    \/ \E t \in BurstInstants : Tick(t)

SpecVolley == InitThrottle /\ [][NextVolley]_vars

\* the calls of L accepted in the interval from..to, both ends included
AcceptedWithin(L, from, to) ==
    Cardinality({i \in 1..Len(L) : L[i].ok /\ L[i].t >= from /\ L[i].t <= to})

\* C32: for every (client IP, orderId) key the number of calls accepted by
\* checkRateLimit in any time interval of length 2 s is at most 10, twice
\* the nominal burst of 5.
C32_AtMostTenPerInterval ==
    \A k \in DOMAIN throttleLog : \A from \in BurstInstants :
        AcceptedWithin(throttleLog[k], from, from + RATE_COOLDOWN) <= 2 * RATE_MAX_CALLS

\* ten calls accepted in an interval of 2 s: five when the window opens and
\* five when the next window opens, 2 s later
C32_Witness ==
    \E k \in DOMAIN throttleLog : \E from \in BurstInstants :
        /\ AcceptedWithin(throttleLog[k], from, from + RATE_COOLDOWN) = 2 * RATE_MAX_CALLS
        /\ verificationRateLimit[k].lastCall = from + RATE_COOLDOWN

-----------------------------------------------------------------------------
(* server.js: what cleanupCache leaves, against what a read accepts *)

\* C33: immediately after a run of cleanupCache every remaining paymentCache
\* entry is still valid for a read (now - timestamp < 300 s) and every
\* remaining verificationRateLimit entry has a lastCall less than 10 minutes
\* old, an entry whose age equals the threshold exactly included.
C33_SweepLeavesOnlyValid ==
    Swept =>
        /\ \A k \in DOMAIN paymentCache :
               now - paymentCache[k].timestamp < CACHE_DURATION_SERVER
        /\ \A k \in DOMAIN verificationRateLimit :
               now - verificationRateLimit[k].lastCall < RATE_STALE

-----------------------------------------------------------------------------
(* utils/validation.js: validateWebhookSignature (exported middleware) *)

\* req.originalUrl of the requests, one character per element
UrlWebhook == <<"/", "w", "e", "b", "h", "o", "o", "k">>
UrlPaymentWebhook ==
    <<"/", "a", "p", "i", "/", "p", "a", "y", "m", "e", "n", "t", "-",
      "w", "e", "b", "h", "o", "o", "k">>
UrlVerify ==
    <<"/", "a", "p", "i", "/", "v", "e", "r", "i", "f", "y", "-",
      "p", "a", "y", "m", "e", "n", "t">>

\* String.prototype.includes
Includes(s, p) ==
    \E i \in 0..(Len(s) - Len(p)) : SubSeq(s, i + 1, i + Len(p)) = p

\* a JavaScript number: NaN, or an integer
NaN == [nan |-> TRUE, v |-> 0]

Num(n) == [nan |-> FALSE, v |-> n]

DigitValue(c) == CHOOSE d \in 0..9 : ToString(d) = c

\* the length of the longest prefix of s made of decimal digits
DigitPrefix(s) ==
    Cardinality({n \in 1..Len(s) : \A i \in 1..n : s[i] \in Digits})

RECURSIVE Decimal(_, _)
Decimal(s, n) ==
    IF n = 0 THEN 0 ELSE 10 * Decimal(s, n - 1) + DigitValue(s[n])

\* parseInt(string): an optional sign, then the longest run of digits;
\* NaN when there is no digit
parseInt(s) ==
    LET signed == Len(s) > 0 /\ s[1] \in {"-", "+"}
        body == IF signed THEN Tail(s) ELSE s
        n == DigitPrefix(body)
    IN  IF n = 0 THEN NaN
        ELSE IF signed /\ s[1] = "-" THEN Num(0 - Decimal(body, n))
        ELSE Num(Decimal(body, n))

\* currentTime - webhookTime
Minus(a, x) == IF x.nan THEN NaN ELSE Num(a - x.v)

\* Math.abs
MathAbs(x) == IF x.nan THEN NaN ELSE Num(Abs(x.v))

\* x > n: false when x is NaN
GreaterThan(x, n) == ~ x.nan /\ x.v > n

\* req.get(header) is undefined when the header is missing; !value is also
\* true of the empty string
NoHeader == <<>>

TimestampHeaders ==
    {NoHeader, <<"0">>, <<"9", "9">>, <<"4", "0", "0">>, <<"7", "0", "1">>,
     <<"7", "0", "0">>, <<"4", "0", "0", "x">>, <<"-", "5">>,
     <<"a", "b", "c">>, <<"N", "a", "N">>}

SignatureHeaders == {NoHeader, <<"s", "i", "g">>}

MiddlewareRequests ==
    [originalUrl : {UrlWebhook, UrlPaymentWebhook, UrlVerify},
     timestamp : TimestampHeaders,
     signature : SignatureHeaders]

\* the instants at which requests reach the middleware (ms)
MiddlewareInstants == {0, 400000, 400999}

\* status 0: next() was called and the middleware sent no response
MiddlewareResp(req, st) ==
    [kind |-> "middleware", impl |-> impl, ip |-> <<>>, orderId |-> <<>>,
     status |-> st, data |-> req, fromCache |-> FALSE, entryTs |-> -1,
     cache_age |-> -1, remote |-> 0, overtaken |-> FALSE, found |-> NoEntry]

\* the status sent, or 0 for next()
validateWebhookSignatureStatus(req, t) ==
    IF ~ Includes(req.originalUrl, UrlWebhook) THEN 0
    ELSE IF req.timestamp = NoHeader \/ req.signature = NoHeader THEN 401
    ELSE LET webhookTime == parseInt(req.timestamp)
             currentTime == t \div 1000
             timeDiff == MathAbs(Minus(currentTime, webhookTime))
         IN  IF GreaterThan(timeDiff, FRESHNESS_WINDOW) THEN 401 ELSE 0

validateWebhookSignature(req) ==
    /\ resp' = MiddlewareResp(req, validateWebhookSignatureStatus(req, now))
    /\ UNCHANGED <<impl, now, paymentCache, verificationRateLimit, verificationCache,
                   inflight, remoteOrder, wire, ncalls, throttleLog,
                   lastFetched, hooked>>

InitMiddleware ==
    /\ impl \in {"server", "routes"}
    /\ now \in MiddlewareInstants
    /\ paymentCache = EmptyMap
    /\ verificationRateLimit = EmptyMap
    /\ verificationCache = EmptyMap
    /\ inflight = EmptyBag
    /\ remoteOrder \in [Orders -> {"ACTIVE"}]
    /\ wire = {}
    /\ resp = NoResp
    /\ ncalls = 0
    /\ throttleLog = EmptyMap
    /\ lastFetched = EmptyMap
    /\ hooked = EmptyMap

NextMiddleware ==
    \/ \E req \in MiddlewareRequests : validateWebhookSignature(req)
    \/ \E t \in MiddlewareInstants : Tick(t)

SpecMiddleware == InitMiddleware /\ [][NextMiddleware]_vars

\* the last step was the middleware acting on a request whose URL it treats
\* as a webhook URL
WebhookChecked ==
    /\ resp.kind = "middleware"
    /\ Includes(resp.data.originalUrl, UrlWebhook)

\* the timestamp header starts with a decimal number (after an optional sign)
\* that lies within 300 seconds of the current time
NumericAndFresh(ts) ==
    LET body == IF Len(ts) > 0 /\ ts[1] \in {"-", "+"} THEN Tail(ts) ELSE ts IN
    /\ Len(body) > 0
    /\ body[1] \in Digits
    /\ Abs(now \div 1000 - parseInt(ts).v) <= FRESHNESS_WINDOW

\* C34: validateWebhookSignature passes a webhook request on to the next
\* handler only if both headers are present and the timestamp header parses
\* to a number within 300 seconds of the current time; every other webhook
\* request, one with a non-numeric timestamp included, is answered 401.
C34_MiddlewareGate ==
    WebhookChecked =>
        IF /\ resp.data.timestamp # NoHeader
           /\ resp.data.signature # NoHeader
           /\ NumericAndFresh(resp.data.timestamp)
        THEN resp.status = 0
        ELSE resp.status = 401

-----------------------------------------------------------------------------
(* Overlapping verifications of one order *)

\* this step answers a verification with a fetched result while the cache
\* holds an entry for the order that was written after the handler was called
\* (by a call that overlapped it)
OverlappedAnswer ==
    /\ FetchedStep
    /\ MapHas(CacheOf(impl), CacheKeyOf(impl, resp'.orderId))
    /\ \E r \in Suspended :
          ~ r.expired /\ r.orderId = resp'.orderId /\ inflight' = Finish(r)

\* C35: when two verification calls for one order overlap, the cache entry
\* after both have finished is the result of the call that performed its
\* cache write last, stamped with the time of the write, also when that call
\* observed an older order status than the other; a call that performs no
\* cache write (server.js, status other than PAID) leaves the entry of the
\* other call as it is.
C35_LastWriteWins ==
    [][OverlappedAnswer =>
          IF impl = "routes" \/ resp'.data.order_status = "PAID"
          THEN EntryReplaced
          ELSE paymentCache' = paymentCache]_vars

\* both calls have finished; the one that wrote last had observed ACTIVE, the
\* entry it replaced was PAID and written at an earlier clock reading; the
\* entry is now the ACTIVE result stamped with the current time
C35_Witness ==
    /\ impl = "routes"
    /\ inflight = EmptyBag
    /\ resp.kind = "verify"
    /\ ~ resp.fromCache
    /\ resp.status = 200
    /\ resp.data.order_status = "ACTIVE"
    /\ resp.found.order_status = "PAID"
    /\ resp.found.earlier
    /\ remoteOrder[resp.orderId] = "PAID"
    /\ verificationCache[CacheKeyRoutes(resp.orderId)] =
           [data |-> resp.data, timestamp |-> now]

-----------------------------------------------------------------------------
(* server.js: what paymentCache holds *)

Paid(data) == data.order_status = "PAID" /\ data.payment_status = "SUCCESS"

\* C36: in server.js, under every interleaving of verifications, webhooks,
\* sweeps and cache clears, every entry of paymentCache holds a result with
\* order_status PAID and payment_status SUCCESS, and every result served with
\* cached = true is such a result: no PENDING or FAILED result is cached.
C36_OnlyPaidCached ==
    impl = "server" =>
        /\ \A k \in DOMAIN paymentCache : Paid(paymentCache[k].data)
        /\ (resp.kind = "verify" /\ resp.status = 200 /\ resp.data.cached) =>
               Paid(resp.data)

\* a call that observed ACTIVE has answered PENDING after an overlapping call
\* cached the PAID result: the entry is still the PAID one
C36_Witness ==
    /\ impl = "server"
    /\ resp.kind = "verify"
    /\ resp.status = 200
    /\ ~ resp.fromCache
    /\ resp.data.payment_status = "PENDING"
    /\ resp.found.order_status = "PAID"
    /\ MapHas(paymentCache, CacheKeyServer(resp.orderId))
    /\ Paid(paymentCache[CacheKeyServer(resp.orderId)].data)

-----------------------------------------------------------------------------
(* server.js: the sweep against the operations that read the two maps *)

\* the instants at which cleanupCache may have run
PastSweeps == {t \in SweepInstants : SWEEP_INTERVAL <= t /\ t <= now}

\* what a verification call for (ip, o) at the current time does, as decided
\* by the maps m (throttle) and cache: the status it answers at once (0: it
\* queries the processor), the cached flag with the payload it serves, and
\* the throttle entry it leaves
VerifyOutcome(m, cache, ip, o) ==
    LET key == CacheKeyServer(o)
        ok == checkRateLimit(m, ip, o, now)
        hit == ok /\ CacheFresh(cache, key, now, CACHE_DURATION_SERVER)
    IN  [status |-> IF ~ ok THEN 429 ELSE IF hit THEN 200 ELSE 0,
         cached |-> hit,
         payload |-> IF hit THEN cache[key] ELSE <<>>,
         remote |-> ok /\ ~ hit,
         limit |-> checkRateLimitStore(m, ip, o, now)[RateKey(ip, o)]]

\* the answer of clear-cache for order o
ClearOutcome(cache, o) == [deleted |-> MapHas(cache, CacheKeyServer(o))]

\* two versions of the maps that a sweep at the current time makes equal
SameAfterSweep(m1, cache1, m2, cache2) ==
    /\ cleanupRateLimit(m1, now) = cleanupRateLimit(m2, now)
    /\ cleanupPaymentCache(cache1, now) = cleanupPaymentCache(cache2, now)

\* the operations of server.js answer alike, and leave maps that a sweep makes
\* equal, on the maps as they are and on the maps as a run of cleanupCache at
\* time t would have left them
TransparentAt(t) ==
    LET m == verificationRateLimit
        cache == paymentCache
        ms == SweepAt(t).verificationRateLimit
        caches == SweepAt(t).paymentCache
    IN  \A o \in Orders :
           LET key == CacheKeyServer(o)
               entry == [data |-> ServerResult([order_status |-> "PAID", order_id |-> o]),
                         timestamp |-> now]
           IN
           /\ VerifyOutcome(m, cache, Ip1, o) = VerifyOutcome(ms, caches, Ip1, o)
           /\ SameAfterSweep(checkRateLimitStore(m, Ip1, o, now), cache,
                             checkRateLimitStore(ms, Ip1, o, now), caches)
           /\ SameAfterSweep(m, MapSet(cache, key, entry), ms, MapSet(caches, key, entry))
           /\ SameAfterSweep(m, MapDelete(cache, key), ms, MapDelete(caches, key))

\* C37 as stated: the responses of verify, webhook and clear-cache (status,
\* cached flag, payload, whether a remote call is made) are the same whether
\* or not cleanupCache has run at earlier points.
C37_Original ==
    impl = "server" =>
        \A t \in PastSweeps :
            /\ TransparentAt(t)
            /\ \A o \in Orders :
                  ClearOutcome(paymentCache, o) = ClearOutcome(SweepAt(t).paymentCache, o)

\* C37 (amended): the responses of verify and webhook, and of clear-cache
\* apart from its `deleted` field, are the same whether or not cleanupCache
\* has run at earlier points, and the maps the operations leave differ only in
\* entries that the next sweep removes.
C37_SweepTransparent ==
    impl = "server" => \A t \in PastSweeps : TransparentAt(t)

\* a verification has been answered while both maps hold entries that a run
\* of cleanupCache would remove
C37_Witness ==
    /\ impl = "server"
    /\ resp.kind = "verify"
    /\ resp.status = 200
    /\ \E t \in PastSweeps :
          /\ SweepAt(t).paymentCache # paymentCache
          /\ SweepAt(t).verificationRateLimit # verificationRateLimit

-----------------------------------------------------------------------------
(* server.js: the keys of verificationRateLimit *)

\* req.ip under app.set('trust proxy', 1) is the last X-Forwarded-For entry
\* as sent, or the socket address; an IPv6 link-local address carries a zone
\* id (the interface name), which may hold "-".  req.body.orderId is checked
\* for presence only.
IpZone == <<":", ":", "1", "%", "b">>
IpZoneDash == <<":", ":", "1", "%", "b", "-", "0">>
OrderDash == <<"0", "-">> \o OrderX

KeyPairs == {<<Ip1, OrderX>>, <<Ip2, OrderX>>, <<IpZone, OrderDash>>,
             <<IpZoneDash, OrderX>>}

NextKeys ==
    \/ \E p \in KeyPairs : VerifyPaymentServer(p[1], p[2], MaxBurst, 1, FALSE)
    \/ \E r \in Suspended : RemoteAnswer(r, {"ok", "404"})
    \/ \E r \in Suspended : ResumeVerifyServer(r)
    \/ \E t \in BurstInstants : Tick(t)

SpecKeys == InitThrottle /\ [][NextKeys]_vars

\* this step receives a verification request of ip for order o
CallStepOf(ip, o) ==
    /\ ncalls' = ncalls + 1
    /\ \/ resp'.kind = "verify" /\ resp'.ip = ip /\ resp'.orderId = o
       \/ /\ resp'.kind = "none"
          /\ \E r \in BagToSet(inflight') :
                /\ r.ip = ip
                /\ r.orderId = o
                /\ CopiesIn(r, inflight') = CopiesIn(r, inflight) + 1

NoLimit == [lastCall |-> -1, count |-> 0]

\* the throttle entry that a call of ip for o consults in map m
LimitOf(m, ip, o) ==
    IF MapHas(m, RateKey(ip, o)) THEN m[RateKey(ip, o)] ELSE NoLimit

\* C38: a checkRateLimit call for (ip1, order1) changes only the
\* verificationRateLimit entry of that pair, and two distinct (ip, orderId)
\* pairs have different keys `${ip}-${orderId}`: a call for one pair leaves
\* the budget of every other pair as it was.
C38_KeysIndependent ==
    [][\A p \in KeyPairs :
          CallStepOf(p[1], p[2]) =>
              /\ \A k \in (DOMAIN verificationRateLimit \cup DOMAIN verificationRateLimit')
                         \ {RateKey(p[1], p[2])} :
                    /\ k \in DOMAIN verificationRateLimit
                    /\ k \in DOMAIN verificationRateLimit'
                    /\ verificationRateLimit'[k] = verificationRateLimit[k]
              /\ \A q \in KeyPairs \ {p} :
                    /\ RateKey(q[1], q[2]) # RateKey(p[1], p[2])
                    /\ LimitOf(verificationRateLimit', q[1], q[2]) =
                           LimitOf(verificationRateLimit, q[1], q[2])]_vars

====
